---- MODULE Spec2Model ----
(***************************************************************************)
(* A model of the generation-evaluation pipeline of MME-Unify               *)
(* (src/evaluate/Evaluate_Generation_Overall.py): evaluate_image_tasks,    *)
(* the three video tasks of VideoMetricsCalculator, calculate_task_scores  *)
(* and main.                                                               *)
(*                                                                         *)
(* Floating-point values are modelled as exact rationals [n, d] (d > 0);   *)
(* float('inf') is the value Inf.  The metric providers (LPIPS, CLIP,      *)
(* FID/FVD feature extraction) and the frame sampler are the environment:  *)
(* each call's outcome (a value, None, or an exception) is drawn from a    *)
(* small set when the record is evaluated.                                 *)
(***************************************************************************)
EXTENDS Integers, Sequences, FiniteSets, TLC

\* Largest number of records of a dataset.
MaxRecords == 2

(***************************************************************************)
(* Rational arithmetic.                                                    *)
(***************************************************************************)
\* Arguments are bound as values (x \in {e}) before they are used, so that
\* an argument expression is evaluated once however often it is referred to.
RECURSIVE GCD(_, _)
GCD(a, b) ==
    CHOOSE g \in {IF y = 0 THEN x ELSE GCD(y, x % y) : x \in {a}, y \in {b}} : TRUE

Abs(n) == IF n < 0 THEN -n ELSE n

\* The rational n / d in lowest terms.
Rat(n, d) ==
    CHOOSE r \in {[n |-> x \div g, d |-> y \div g] :
                    x \in {n}, y \in {d}, g \in {GCD(Abs(n), d)}} : TRUE

RatZero == [n |-> 0, d |-> 1]

RatAdd(p, q) ==
    CHOOSE r \in {Rat(x.n * y.d + y.n * x.d, x.d * y.d) : x \in {p}, y \in {q}} : TRUE

RatDiv(p, k) == CHOOSE r \in {Rat(x.n, x.d * k) : x \in {p}} : TRUE

RatEq(p, q) == p.n * q.d = q.n * p.d

RECURSIVE RatSum(_)
RatSum(s) == IF s = <<>> THEN RatZero ELSE RatAdd(Head(s), RatSum(Tail(s)))

\* np.mean of a non-empty list, and Python's sum(xs) / len(xs).
Mean(s) == RatDiv(RatSum(s), Len(s))

(***************************************************************************)
(* Dataset records.                                                        *)
(***************************************************************************)
Recon == "Fine-Grained_Image_Reconstruction"
Editing == "Text-Image_Editing"
Generation == "Text-Image_Generation"
I2VCategory == "Conditional_Image_to_Video_Generation"
T2VCategory == "Text-to-Video_Generation"
VPCategory == "Video prediction"
\* A category string that matches no task (differs from VPCategory in case).
OtherCategory == "Video Prediction"

\* item['output']: missing or empty, a path string, a dict holding
\* 'output_image', a non-empty dict without it.
OutMissing == "missing"
OutStr == "str"
OutDictImage == "dict_output_image"
OutDictOther == "dict_other"

Item(cat, err, out, keys, prompt) ==
    [category |-> cat, error |-> err, output |-> out, has_data |-> TRUE,
     data |-> keys, has_prompt |-> prompt]

\* The keys of item['data'] (none when the record has no 'data').
DataKeys(item) == IF item.has_data THEN item.data ELSE {}

WithIds(shapes) == [i \in DOMAIN shapes |-> shapes[i] @@ [id |-> i]]

Datasets(shapes) ==
    UNION {{WithIds(s) : s \in [1..n -> shapes]} : n \in 0..MaxRecords}

(***************************************************************************)
(* evaluate_image_tasks                                                    *)
(***************************************************************************)
NoEnv == [kind |-> "none"]

\* Outcomes of the evaluator's calls for one image record: an image that
\* does not load, a metric call that raises, or the metric values.
ImageEnv(category) ==
    {[kind |-> "image", out_loads |-> FALSE, ref_loads |-> TRUE, raises |-> FALSE,
      lpips |-> 0, clip_i |-> 0, clip_t |-> 0],
     [kind |-> "image", out_loads |-> TRUE, ref_loads |-> FALSE, raises |-> FALSE,
      lpips |-> 0, clip_i |-> 0, clip_t |-> 0],
     [kind |-> "image", out_loads |-> TRUE, ref_loads |-> TRUE, raises |-> TRUE,
      lpips |-> 0, clip_i |-> 0, clip_t |-> 0]}
    \cup
    IF category = Recon
    THEN {[kind |-> "image", out_loads |-> TRUE, ref_loads |-> TRUE, raises |-> FALSE,
           lpips |-> v, clip_i |-> 0, clip_t |-> 0] : v \in {40, 90}}
    ELSE {[kind |-> "image", out_loads |-> TRUE, ref_loads |-> TRUE, raises |-> FALSE,
           lpips |-> 0, clip_i |-> ci, clip_t |-> ct] : ci \in {70, 90}, ct \in {20}}

ImageCategories == {Recon, Editing, Generation}

\* The data key each image category reads its target path from.
TargetKey(category) == IF category = Editing THEN "edited_image" ELSE "image"

\* Whether the record reaches the evaluator (and so draws an outcome).
ReachesEvaluator(item) ==
    /\ item.error = 0
    /\ item.output \in {OutStr, OutDictImage}
    /\ item.category \in ImageCategories
    /\ TargetKey(item.category) \in DataKeys(item)

evaluate_reconstruction(e) ==
    IF ~e.out_loads \/ ~e.ref_loads
    THEN [kind |-> "None"]
    ELSE IF e.raises
    THEN [kind |-> "raise"]
    ELSE [kind |-> "result",
          result |-> [lpips |-> Rat(e.lpips, 1), score |-> Rat(e.lpips, 1)]]

\* An editing evaluation whose score is the sum of its two similarities.
evaluate_editing_sum(e) ==
    IF ~e.out_loads \/ ~e.ref_loads
    THEN [kind |-> "None"]
    ELSE IF e.raises
    THEN [kind |-> "raise"]
    ELSE [kind |-> "result",
          result |-> [clip_i |-> Rat(e.clip_i, 1), clip_t |-> Rat(e.clip_t, 1),
                      score |-> RatAdd(Rat(e.clip_i, 1), Rat(e.clip_t, 1))]]

evaluate_editing(e) ==
    IF ~e.out_loads \/ ~e.ref_loads
    THEN [kind |-> "None"]
    ELSE IF e.raises
    THEN [kind |-> "raise"]
    ELSE [kind |-> "result",
          result |-> [clip_i |-> Rat(e.clip_i, 1), clip_t |-> Rat(e.clip_t, 1),
                      score |-> RatDiv(RatAdd(Rat(e.clip_i, 1), Rat(e.clip_t, 1)), 2)]]

evaluate_generation(e) == evaluate_editing(e)

(***************************************************************************)
(* State.                                                                  *)
(*   entry         the function a run starts in (main, or one of the       *)
(*                 functions main calls, run on its own)                   *)
(*   pc            the position in the program                             *)
(*   file          the input JSON file: parsable or not, and its records   *)
(*   data          the records read from it                                *)
(*   idx           the number of records of the current loop already done  *)
(*   results       the `results` dict of the function that is running      *)
(*   image_results the value evaluate_image_tasks returned                 *)
(*   video_results the results of the video tasks finished so far          *)
(*   all_results   main's all_results                                      *)
(*   scores_result the value calculate_task_scores returned                *)
(*   output_file   the report written to args.output_file                  *)
(*   log           history: per evaluated record, the task, the record id, *)
(*                 how it was counted, the path taken through the loop     *)
(*                 body, whether a MetricProvider or FrameSampler call was *)
(*                 made, and the calls' outcome                            *)
(***************************************************************************)
VARIABLES entry, pc, file, data, idx, results, image_results, video_results,
          all_results, scores_result, output_file, log

vars == <<entry, pc, file, data, idx, results, image_results, video_results,
          all_results, scores_result, output_file, log>>

None == [kind |-> "None"]

\* The position a function run on its own returns to.
Return(next) == IF entry = "main" THEN next ELSE "done"

\* A record loop that is left when a record's evaluation raises.
AfterItemAbortOnRaise(i, n, path) ==
    IF path \in {"except", "inner_except"} THEN n ELSE i + 1

\* The number of records done after record i + 1 of n, whichever path its
\* iteration took: `continue`, the end of a handler and the end of the
\* body all go on to the next record.
AfterItem(i, n, path) == i + 1

\* Lines 85-134: what one iteration of the loop does with a record.
EvaluateImageItem(item, e) ==
    IF item.error # 0
    THEN [kind |-> "skip", called |-> FALSE]
    ELSE IF item.output = OutMissing
    THEN [kind |-> "skip", called |-> FALSE]
    ELSE IF item.output \notin {OutStr, OutDictImage}
    THEN [kind |-> "skip", called |-> FALSE]
    ELSE IF item.category \in ImageCategories
    THEN IF TargetKey(item.category) \notin DataKeys(item)
         THEN [kind |-> "except", called |-> FALSE]
         ELSE LET r == IF item.category = Recon THEN evaluate_reconstruction(e)
                       ELSE IF item.category = Editing THEN evaluate_editing(e)
                       ELSE evaluate_generation(e)
              IN  IF r.kind = "raise" THEN [kind |-> "except", called |-> TRUE]
                  ELSE IF r.kind = "None" THEN [kind |-> "none", called |-> FALSE]
                  ELSE [kind |-> "result", called |-> TRUE, result |-> r.result]
    ELSE [kind |-> "no_branch", called |-> FALSE]

\* results["categories"][category].append(result) on a defaultdict(list).
AppendTo(categories, category, result) ==
    IF category \in DOMAIN categories
    THEN [categories EXCEPT ![category] = Append(@, result)]
    ELSE categories @@ (category :> <<result>>)

\* The counters and lists after one iteration with outcome o.
CountImageItem(res, item, o) ==
    IF o.kind \in {"skip", "except"}
    THEN [res EXCEPT !.skipped_samples = @ + 1]
    ELSE IF o.kind = "result"
    THEN [res EXCEPT !.processed_samples = @ + 1,
                     !.categories = AppendTo(@, item.category, o.result)]
    ELSE res

\* Lines 137-149: the mean of every metric over the items of a category.
CategoryScores(categories) ==
    [c \in {c \in DOMAIN categories : categories[c] # <<>>} |->
        [m \in DOMAIN categories[c][1] |->
            Mean([i \in 1..Len(categories[c]) |-> categories[c][i][m]])]]

\* How the history names the way a record was counted.
ImageStatus(o) ==
    IF o.kind = "result" THEN "processed"
    ELSE IF o.kind \in {"skip", "except"} THEN "skipped"
    ELSE "uncounted"

\* Lines 73-81: the evaluator is built and the counters are set up.
ImageInit ==
    /\ pc = "image_init"
    /\ results' = [total_samples |-> Len(data), processed_samples |-> 0,
                   skipped_samples |-> 0, categories |-> <<>>]
    /\ idx' = 0
    /\ pc' = "image_loop"
    /\ UNCHANGED <<entry, file, data, image_results, video_results, all_results,
                   scores_result, output_file, log>>

\* Lines 84-134: one iteration of the record loop.
ImageStep ==
    /\ pc = "image_loop"
    /\ idx < Len(data)
    /\ LET item == data[idx + 1] IN
       \E e \in (IF ReachesEvaluator(item) THEN ImageEnv(item.category) ELSE {NoEnv}) :
          LET o == EvaluateImageItem(item, e) IN
          /\ results' = CountImageItem(results, item, o)
          /\ log' = Append(log, [task |-> "image_tasks", id |-> item.id,
                                 status |-> ImageStatus(o), path |-> o.kind,
                                 called |-> o.called, env |-> e])
          /\ idx' = AfterItem(idx, Len(data), o.kind)
    /\ UNCHANGED <<entry, pc, file, data, image_results, video_results, all_results,
                   scores_result, output_file>>

\* Lines 136-151, and main's line 1265 when main is the caller.
ImageFinish ==
    /\ pc = "image_loop"
    /\ idx = Len(data)
    /\ LET r == results @@ [category_scores |-> CategoryScores(results.categories)] IN
       /\ image_results' = r
       /\ all_results' = IF entry = "main" THEN all_results @@ [image_tasks |-> r]
                         ELSE all_results
    /\ pc' = Return("video_init")
    /\ UNCHANGED <<entry, file, data, idx, results, video_results, scores_result,
                   output_file, log>>

(***************************************************************************)
(* VideoMetricsCalculator                                                  *)
(***************************************************************************)
\* float('inf').
Inf == -1

\* normalize_fvd's default max_value.
FvdMax == 1000

\* extract_frames_for_clip's default num_frames.
ClipFrames == 8

RatLe(p, q) == p.n * q.d <= q.n * p.d

RatMin(p, q) == IF RatLe(p, q) THEN p ELSE q

RatMax(p, q) == IF RatLe(p, q) THEN q ELSE p

\* The methods class VideoMetricsCalculator defines (lines 557-1161).
Methods ==
    {"__init__", "_validate_item", "_validate_t2v_item", "_validate_features",
     "sample_frames_from_mp4", "extract_frames_for_clip", "load_frame_sequence",
     "load_and_process_mp4", "extract_features", "extract_inception_features",
     "calculate_fid", "calculate_fvd", "normalize_fvd", "process_image_to_video",
     "process_text_to_video", "process_video_prediction", "process_dataset", "cleanup"}

\* Whether self.<name> resolves; otherwise the lookup raises AttributeError.
HasMethod(name) == name \in Methods

_validate_item(item) ==
    /\ item.has_data
    /\ "image" \in item.data /\ "video" \in item.data
    /\ item.output # OutMissing
    /\ item.has_prompt

_validate_t2v_item(item) ==
    /\ item.has_data /\ "image" \in item.data
    /\ item.output # OutMissing
    /\ item.has_prompt

\* A normalisation without the lower clamp.
normalize_fvd_no_floor(fvd_score) ==
    IF fvd_score = Inf
    THEN RatZero
    ELSE RatMin(Rat(1, 1), Rat(FvdMax - fvd_score, FvdMax))

\* 1 - fvd / max_value, clamped to [0, 1]; 0 for an infinite distance.
normalize_fvd(fvd_score) ==
    IF fvd_score = Inf
    THEN RatZero
    ELSE RatMax(RatZero, RatMin(Rat(1, 1), Rat(FvdMax - fvd_score, FvdMax)))

RECURSIVE Pow2(_)
Pow2(k) == IF k = 0 THEN 1 ELSE 2 * Pow2(k - 1)

\* floor(log2(a / b)) for integers a, b >= 1.
RECURSIVE FloorLog2(_, _)
FloorLog2(a, b) ==
    IF a >= 2 * b THEN FloorLog2(a, 2 * b) + 1
    ELSE IF a < b THEN FloorLog2(2 * a, b) - 1
    ELSE 0

\* 2^e modulo b.
RECURSIVE PowMod2(_, _)
PowMod2(e, b) == IF e = 0 THEN 1 % b ELSE (2 * PowMod2(e - 1, b)) % b

\* Whether the double nearest to a / b lies below a / b: the 53-bit
\* significand is a * 2^(52 - E) / b rounded to the nearest integer, E being
\* floor(log2(a / b)), and it is rounded down when the remainder of the
\* division is less than b / 2.
StepRoundedDown(a, b) ==
    LET rho == (a * PowMod2(52 - FloorLog2(a, b), b)) % b IN
    0 < rho /\ 2 * rho < b

\* Whether the double product i * step, step being the double nearest to
\* a / b and lying below it, is the integer k = i * a / b: the product is
\* k - i * (rho / b) * 2^(E - 52) before rounding, and it rounds to k when
\* that is no further from k than half the gap between k and the double
\* before it (2^(Ek - 52), or 2^(Ek - 53) when k is a power of two).
ProductRoundsTo(k, i, a, b) ==
    LET E == FloorLog2(a, b)
        rho == (a * PowMod2(52 - E, b)) % b
        Ek == FloorLog2(k, 1)
        x == E - Ek + (IF k = Pow2(Ek) THEN 2 ELSE 1)
    IN  IF x >= 0 THEN i * rho * Pow2(x) <= b ELSE i * rho <= b * Pow2(0 - x)

\* Element i (from 0) of np.linspace(0, a, b + 1, dtype=int) for b >= 1:
\* step = a / b in double precision, y[i] = i * step in double precision,
\* the last element set to a, and every element rounded down.  The double
\* product is within 2^-40 of i * a / b, so its floor is that of i * a / b
\* unless i * a / b is an integer k and the product falls below k.
LinspaceAt(i, a, b) ==
    LET k == (i * a) \div b IN
    IF i = b THEN a
    ELSE IF /\ (i * a) % b = 0
            /\ k >= 1
            /\ StepRoundedDown(a, b)
            /\ ~ProductRoundsTo(k, i, a, b)
    THEN k - 1
    ELSE k

\* np.linspace(0, total_frames - 1, num_frames, dtype=int) as a set.
SampleIndices(total_frames, num_frames) ==
    IF num_frames = 1 \/ total_frames = 1 THEN {0}
    ELSE {LinspaceAt(i, total_frames - 1, num_frames - 1) : i \in 0..(num_frames - 1)}

\* The frames sample_frames_from_mp4 returns of a video of total_frames
\* frames, by 1-based position, in reading order.
RECURSIVE SampledFrom(_, _, _)
SampledFrom(k, total_frames, indices) ==
    IF k > total_frames THEN <<>>
    ELSE (IF (k - 1) \in indices THEN <<k>> ELSE <<>>)
         \o SampledFrom(k + 1, total_frames, indices)

sample_frames_from_mp4(total_frames, num_frames) ==
    SampledFrom(1, total_frames, SampleIndices(total_frames, num_frames))

\* A sampler for the similarity that asks for 16 frames.
extract_sixteen_frames(total_frames) == sample_frames_from_mp4(total_frames, 16)

extract_frames_for_clip(total_frames) == sample_frames_from_mp4(total_frames, ClipFrames)

\* The frame-text similarities that are not None, in frame order.
RECURSIVE FrameClipScores(_, _)
FrameClipScores(sims, frames) ==
    IF frames = <<>> THEN <<>>
    ELSE (IF sims[Head(frames)].ok THEN <<sims[Head(frames)].v>> ELSE <<>>)
         \o FrameClipScores(sims, Tail(frames))

Sim(n, d) == [ok |-> TRUE, v |-> Rat(n, d)]

NoSim == [ok |-> FALSE, v |-> RatZero]

\* Per frame of a generated video, what calculate_similarity returns.
\* The number of frames of the longest generated video.
LongVideoFrames == 16

\* The similarities of a video longer than any number of frames asked for.
LongSims == [k \in 1..LongVideoFrames |-> IF k % 2 = 1 THEN Sim(3, 10) ELSE Sim(1, 4)]

FrameSims ==
    {<<NoSim>>, <<Sim(1, 4)>>, <<NoSim, Sim(3, 10)>>, <<Sim(1, 4), Sim(3, 10)>>, LongSims}

VideoOutcome(gen, sims, ref, feat, fvd, fid) ==
    [kind |-> "video", gen_ok |-> gen, sims |-> sims, ref_ok |-> ref,
     feat_ok |-> feat, fvd |-> fvd, fid |-> fid]

\* Outcomes of the calls for one video record: whether the generated and
\* the reference video can be read, the per-frame similarities, whether
\* the features validate, and the distances.
I2VEnv ==
    {VideoOutcome(FALSE, <<NoSim>>, TRUE, TRUE, 0, 0)}
    \cup {VideoOutcome(TRUE, s, TRUE, TRUE, 400, 0) : s \in FrameSims}
    \cup {VideoOutcome(TRUE, <<Sim(1, 4), Sim(3, 10)>>, FALSE, TRUE, 0, 0),
          VideoOutcome(TRUE, <<Sim(1, 4), Sim(3, 10)>>, TRUE, FALSE, 0, 0)}
    \cup {VideoOutcome(TRUE, <<Sim(1, 4), Sim(3, 10)>>, TRUE, TRUE, d, 0) : d \in {0, 1500, Inf}}

T2VEnv ==
    {VideoOutcome(FALSE, <<NoSim>>, TRUE, TRUE, 0, 0)}
    \cup {VideoOutcome(TRUE, s, TRUE, TRUE, 0, 0) : s \in FrameSims}

VPEnv ==
    {VideoOutcome(FALSE, <<NoSim>>, TRUE, TRUE, 0, 0),
     VideoOutcome(TRUE, <<NoSim>>, TRUE, TRUE, 400, 200),
     VideoOutcome(TRUE, <<NoSim>>, TRUE, FALSE, 0, 200),
     VideoOutcome(TRUE, <<NoSim>>, TRUE, FALSE, 0, Inf)}

ZeroI2V(item) ==
    [id |-> item.id, fvd |-> Inf, norm_fvd |-> RatZero, clip_t |-> RatZero,
     score |-> RatZero]

ZeroT2V(item) == [id |-> item.id, clip_t |-> RatZero, score |-> RatZero]

ZeroVP(item) ==
    [id |-> item.id, fvd |-> Inf, norm_fvd |-> RatZero, fid |-> Inf,
     norm_fid |-> RatZero, score |-> RatZero]

Skipped(zero, path, called) ==
    [entry |-> zero, status |-> "skipped", path |-> path, called |-> called]

Processed(e) == [entry |-> e, status |-> "processed", path |-> "success", called |-> TRUE]

\* Lines 797-895: one iteration of process_image_to_video's loop.
I2VSample(item, e) ==
    IF ~_validate_item(item)
    THEN Skipped(ZeroI2V(item), "validation", FALSE)
    ELSE IF item.output # OutStr
    THEN Skipped(ZeroI2V(item), "outer_except", FALSE)
    ELSE IF ~e.gen_ok \/ ~e.ref_ok
    THEN Skipped(ZeroI2V(item), "inner_except", TRUE)
    ELSE LET gen_frames == extract_frames_for_clip(Len(e.sims))
             frame_clip_scores == FrameClipScores(e.sims, gen_frames)
         IN  IF e.feat_ok /\ frame_clip_scores # <<>>
             THEN LET norm_fvd == normalize_fvd(e.fvd)
                      avg_clip_t == Mean(frame_clip_scores)
                  IN  Processed([id |-> item.id, fvd |-> e.fvd, norm_fvd |-> norm_fvd,
                                 clip_t |-> avg_clip_t,
                                 score |-> RatDiv(RatAdd(norm_fvd, avg_clip_t), 2)])
             ELSE Skipped(ZeroI2V(item), "invalid", TRUE)

\* Lines 914-983: one iteration of process_text_to_video's loop.
T2VSample(item, e) ==
    IF ~_validate_t2v_item(item)
    THEN Skipped(ZeroT2V(item), "validation", FALSE)
    ELSE IF item.output # OutStr
    THEN Skipped(ZeroT2V(item), "outer_except", FALSE)
    ELSE IF ~e.gen_ok
    THEN Skipped(ZeroT2V(item), "inner_except", TRUE)
    ELSE LET gen_frames == extract_frames_for_clip(Len(e.sims))
             frame_clip_scores == FrameClipScores(e.sims, gen_frames)
         IN  IF frame_clip_scores # <<>>
             THEN LET avg_clip_t == Mean(frame_clip_scores)
                  IN  Processed([id |-> item.id, clip_t |-> avg_clip_t,
                                 score |-> avg_clip_t])
             ELSE Skipped(ZeroT2V(item), "invalid", TRUE)

\* Lines 1003-1121: one iteration of process_video_prediction's loop.  The
\* first statement of the inner try looks up
\* self.extract_inception_features_batch, and line 1040 self.normalize_fid:
\* the class defines neither, so the inner try always ends in its handler
\* and lines 1041-1093 are never run (they are given with the
\* normalisation of normalize_fvd in the place of the missing one).
VPSample(item, e) ==
    IF ~_validate_item(item)
    THEN Skipped(ZeroVP(item), "validation", FALSE)
    ELSE IF item.output # OutStr
    THEN Skipped(ZeroVP(item), "outer_except", FALSE)
    ELSE IF ~HasMethod("extract_inception_features_batch")
    THEN Skipped(ZeroVP(item), "inner_except", FALSE)
    ELSE IF ~e.gen_ok \/ ~e.ref_ok \/ ~HasMethod("normalize_fid")
    THEN Skipped(ZeroVP(item), "inner_except", TRUE)
    ELSE LET norm_fvd == normalize_fvd(e.fvd)
             norm_fid == normalize_fvd(e.fid)
         IN  IF e.feat_ok
             THEN Processed([id |-> item.id, fvd |-> e.fvd, norm_fvd |-> norm_fvd,
                             fid |-> e.fid, norm_fid |-> norm_fid,
                             score |-> RatDiv(RatAdd(norm_fvd, norm_fid), 2)])
             ELSE IF e.fid # Inf
             THEN Processed([id |-> item.id, fvd |-> Inf, norm_fvd |-> RatZero,
                             fid |-> e.fid, norm_fid |-> norm_fid,
                             score |-> norm_fid])
             ELSE Skipped(ZeroVP(item), "invalid", TRUE)

VideoTasks == <<"image_to_video", "text_to_video", "video_prediction">>

TaskCategory(task) ==
    IF task = "image_to_video" THEN I2VCategory
    ELSE IF task = "text_to_video" THEN T2VCategory
    ELSE VPCategory

\* A filter that ignores the case of the category string.
RECURSIVE FilterCategoryAnyCase(_, _)
FilterCategoryAnyCase(items, category) ==
    IF items = <<>> THEN <<>>
    ELSE (IF \/ Head(items).category = category
             \/ Head(items).category = OtherCategory /\ category = VPCategory
          THEN <<Head(items)>> ELSE <<>>)
         \o FilterCategoryAnyCase(Tail(items), category)

\* [item for item in data if item.get('category') == ...]
RECURSIVE FilterCategory(_, _)
FilterCategory(items, category) ==
    IF items = <<>> THEN <<>>
    ELSE (IF Head(items).category = category THEN <<Head(items)>> ELSE <<>>)
         \o FilterCategory(Tail(items), category)

TaskData(task) == FilterCategory(data, TaskCategory(task))

\* Whether the record reaches the inner try (and so draws an outcome).
ReachesCalls(task, item) ==
    /\ IF task = "text_to_video" THEN _validate_t2v_item(item) ELSE _validate_item(item)
    /\ item.output = OutStr

TaskEnv(task) ==
    IF task = "image_to_video" THEN I2VEnv
    ELSE IF task = "text_to_video" THEN T2VEnv
    ELSE VPEnv

TaskSample(task, item, e) ==
    IF task = "image_to_video" THEN I2VSample(item, e)
    ELSE IF task = "text_to_video" THEN T2VSample(item, e)
    ELSE VPSample(item, e)

StartPc(task) ==
    IF task = "image_to_video" THEN "i2v_start"
    ELSE IF task = "text_to_video" THEN "t2v_start"
    ELSE "vp_start"

LoopPc(task) ==
    IF task = "image_to_video" THEN "i2v_loop"
    ELSE IF task = "text_to_video" THEN "t2v_loop"
    ELSE "vp_loop"

\* A loop body that puts the entry of a skipped record at the head of
\* the list.
CountVideoItemSkippedFirst(res, o) ==
    [res EXCEPT !.sample_scores = IF o.status = "skipped" THEN <<o.entry>> \o @
                                  ELSE Append(@, o.entry),
                !.processed_samples = IF o.status = "processed" THEN @ + 1 ELSE @,
                !.skipped_samples = IF o.status = "skipped" THEN @ + 1 ELSE @]

\* An else branch (invalid features, no similarity) that appends the zero
\* entry and forgets the counter.
CountVideoItemForgetInvalid(res, o) ==
    [res EXCEPT !.sample_scores = Append(@, o.entry),
                !.processed_samples = IF o.status = "processed" THEN @ + 1 ELSE @,
                !.skipped_samples =
                    IF o.status = "skipped" /\ o.path # "invalid" THEN @ + 1 ELSE @]

\* The counters and the list after one iteration with outcome o.
CountVideoItem(res, o) ==
    [res EXCEPT !.sample_scores = Append(@, o.entry),
                !.processed_samples = IF o.status = "processed" THEN @ + 1 ELSE @,
                !.skipped_samples = IF o.status = "skipped" THEN @ + 1 ELSE @]

\* An average that leaves the zero-filled entries out.
AverageOfNonZero(sample_scores) ==
    LET kept == SelectSeq(sample_scores, LAMBDA x : x.score # RatZero) IN
    IF kept # <<>>
    THEN Mean([i \in 1..Len(kept) |-> kept[i].score])
    ELSE RatZero

\* results["average_score"] (lines 898, 986, 1129).
AverageScore(sample_scores) ==
    IF sample_scores # <<>>
    THEN Mean([i \in 1..Len(sample_scores) |-> sample_scores[i].score])
    ELSE RatZero

\* The filter and the results dict at the head of a video task.
TaskStart(task) ==
    /\ pc = StartPc(task)
    /\ results' = [total_samples |-> Len(TaskData(task)), processed_samples |-> 0,
                   skipped_samples |-> 0, sample_scores |-> <<>>]
    /\ idx' = 0
    /\ pc' = LoopPc(task)
    /\ UNCHANGED <<entry, file, data, image_results, video_results, all_results,
                   scores_result, output_file, log>>

\* One iteration of a video task's record loop.
TaskStep(task) ==
    /\ pc = LoopPc(task)
    /\ idx < Len(TaskData(task))
    /\ LET item == TaskData(task)[idx + 1] IN
       \E e \in (IF ReachesCalls(task, item) THEN TaskEnv(task) ELSE {NoEnv}) :
          LET o == TaskSample(task, item, e) IN
          /\ results' = CountVideoItem(results, o)
          /\ log' = Append(log, [task |-> task, id |-> item.id, status |-> o.status,
                                 path |-> o.path, called |-> o.called, env |-> e])
          /\ idx' = AfterItem(idx, Len(TaskData(task)), o.path)
    /\ UNCHANGED <<entry, pc, file, data, image_results, video_results, all_results,
                   scores_result, output_file>>

\* Lines 1140-1151: the tasks run one after the other; after the last,
\* process_dataset returns.
AfterPc(task) ==
    IF task = "image_to_video" THEN "t2v_start"
    ELSE IF task = "text_to_video" THEN "vp_start"
    ELSE Return("video_return")

\* The average after the loop, and the task's return to process_dataset.
TaskFinish(task) ==
    /\ pc = LoopPc(task)
    /\ idx = Len(TaskData(task))
    /\ video_results' =
          video_results @@ (task :> (results @@ [average_score |->
                                                   AverageScore(results.sample_scores)]))
    /\ pc' = AfterPc(task)
    /\ UNCHANGED <<entry, file, data, idx, results, image_results, all_results,
                   scores_result, output_file, log>>

I2VStart == TaskStart("image_to_video")

I2VStep == TaskStep("image_to_video")

I2VFinish == TaskFinish("image_to_video")

T2VStart == TaskStart("text_to_video")

T2VStep == TaskStep("text_to_video")

T2VFinish == TaskFinish("text_to_video")

VPStart == TaskStart("video_prediction")

VPStep == TaskStep("video_prediction")

\* process_video_prediction's end; process_dataset returns the three results.
VPFinish == TaskFinish("video_prediction")

(***************************************************************************)
(* calculate_task_scores                                                   *)
(***************************************************************************)
image_tasks == <<Recon, Editing, Generation>>

video_tasks == <<"image_to_video", "text_to_video", "video_prediction">>

Range(s) == {s[i] : i \in DOMAIN s}

RECURSIVE SumKeys(_, _)
SumKeys(f, keys) ==
    IF keys = {} THEN RatZero
    ELSE LET k == CHOOSE k \in keys : TRUE
         IN  RatAdd(f[k], SumKeys(f, keys \ {k}))

\* A score of an image task that averages the 'score' key with the others.
ImageTaskScoreWithScoreKey(results_dict, task) ==
    IF /\ "image_tasks" \in DOMAIN results_dict
       /\ "category_scores" \in DOMAIN results_dict["image_tasks"]
    THEN LET image_scores == results_dict["image_tasks"]["category_scores"] IN
         IF task \in DOMAIN image_scores
         THEN LET metrics == DOMAIN image_scores[task] IN
              RatDiv(SumKeys(image_scores[task], metrics), Cardinality(metrics))
         ELSE RatZero
    ELSE RatZero

\* Lines 1190-1218: the score of one image task.
ImageTaskScore(results_dict, task) ==
    IF /\ "image_tasks" \in DOMAIN results_dict
       /\ "category_scores" \in DOMAIN results_dict["image_tasks"]
    THEN LET image_scores == results_dict["image_tasks"]["category_scores"] IN
         IF task \in DOMAIN image_scores
         THEN LET metrics == (DOMAIN image_scores[task]) \ {"score"} IN
              IF metrics # {}
              THEN RatDiv(SumKeys(image_scores[task], metrics), Cardinality(metrics))
              ELSE RatZero
         ELSE RatZero
    ELSE RatZero

\* Lines 1221-1230: the score of one video task.
VideoTaskScore(results_dict, task) ==
    IF task \in DOMAIN results_dict /\ "average_score" \in DOMAIN results_dict[task]
    THEN results_dict[task]["average_score"]
    ELSE RatZero

\* task_scores: one entry per expected task.
TaskScores(results_dict) ==
    [t \in Range(image_tasks) \cup Range(video_tasks) |->
        IF t \in Range(image_tasks) THEN ImageTaskScore(results_dict, t)
        ELSE VideoTaskScore(results_dict, t)]

\* all_scores with only the video tasks the input holds.
AllScoresOfPresentTasks(results_dict) ==
    LET present == SelectSeq(video_tasks, LAMBDA t : t \in DOMAIN results_dict) IN
    [i \in 1..Len(image_tasks) |-> ImageTaskScore(results_dict, image_tasks[i])]
    \o [i \in 1..Len(present) |-> VideoTaskScore(results_dict, present[i])]

\* all_scores: the scores in the order they are appended.
AllScores(results_dict) ==
    [i \in 1..Len(image_tasks) |-> ImageTaskScore(results_dict, image_tasks[i])]
    \o [i \in 1..Len(video_tasks) |-> VideoTaskScore(results_dict, video_tasks[i])]

calculate_task_scores(results_dict) ==
    LET all_scores == AllScores(results_dict) IN
    [task_scores |-> TaskScores(results_dict),
     generation_score |-> IF all_scores # <<>>
                          THEN RatDiv(RatSum(all_scores), Len(all_scores))
                          ELSE RatZero]

(***************************************************************************)
(* main                                                                    *)
(***************************************************************************)
\* Lines 1269-1279: the image results main substitutes when the image
\* stage raises.
ImagePlaceholder ==
    [total_samples |-> 0, processed_samples |-> 0, skipped_samples |-> 0,
     categories |-> <<>>,
     category_scores |->
        (Recon :> [lpips |-> RatZero])
        @@ (Editing :> [clip_i |-> RatZero, clip_t |-> RatZero])
        @@ (Generation :> [clip_i |-> RatZero, clip_t |-> RatZero])]

\* Lines 1294-1300, 1308-1328: the result of a video task that has none.
VideoPlaceholder ==
    [total_samples |-> 0, processed_samples |-> 0, skipped_samples |-> 0,
     sample_scores |-> <<>>, average_score |-> RatZero]

\* Placeholders only for the tasks that had not finished.
VideoPlaceholdersForUnfinished ==
    [t \in Range(video_tasks) |->
        IF t \in DOMAIN video_results THEN video_results[t] ELSE VideoPlaceholder]

\* Lines 1307-1329: the results the handler of the video stage substitutes.
VideoPlaceholders == [t \in Range(video_tasks) |-> VideoPlaceholder]

\* Lines 1360-1392: the results of the top-level handler.
EmptyResults ==
    [image_tasks |-> [total_samples |-> 0, processed_samples |-> 0,
                      skipped_samples |-> 0,
                      category_scores |-> ImagePlaceholder.category_scores]]
    @@ VideoPlaceholders

\* dict.update: the keys of new replace those of old.
Update(old, new) == new @@ old

\* args.output_file: not written to, written, or a write that raised (the
\* handler logs it and main goes on).
NoReport == [attempted |-> FALSE, written |-> FALSE]

Report(doc) == [attempted |-> TRUE, written |-> TRUE, doc |-> doc]

FailedWrite == [attempted |-> TRUE, written |-> FALSE]

\* The entry the history keeps of a stage that raised as a whole.
StageRaised(stage) ==
    [task |-> stage, id |-> 0, status |-> "stage_raise", path |-> "stage_raise",
     called |-> FALSE, env |-> NoEnv]

\* A main without the top-level handler: a parse failure ends the run.
LoadUnhandled ==
    /\ pc = "load"
    /\ IF file.parsable
       THEN data' = file.records /\ pc' = "image_init"
       ELSE data' = data /\ pc' = "done"
    /\ UNCHANGED <<entry, file, idx, results, image_results, video_results,
                   all_results, scores_result, output_file, log>>

\* Lines 1258-1259: json.load of the input file; a failure goes to the
\* top-level handler.
Load ==
    /\ pc = "load"
    /\ IF file.parsable
       THEN data' = file.records /\ pc' = "image_init"
       ELSE data' = data /\ pc' = "fatal"
    /\ UNCHANGED <<entry, file, idx, results, image_results, video_results,
                   all_results, scores_result, output_file, log>>

\* Lines 1266-1279: evaluate_image_tasks raised before its record loop
\* (the evaluator's models could not be loaded).
ImageStageRaise ==
    /\ pc = "image_init"
    /\ entry = "main"
    /\ all_results' = Update(all_results, [image_tasks |-> ImagePlaceholder])
    /\ log' = Append(log, StageRaised("image_tasks"))
    /\ pc' = "video_init"
    /\ UNCHANGED <<entry, file, data, idx, results, image_results, video_results,
                   scores_result, output_file>>

\* Lines 1284-1285, 1136-1137: the calculator is built and process_dataset
\* reads the input file again.
VideoInit ==
    /\ pc = "video_init"
    /\ pc' = "i2v_start"
    /\ UNCHANGED <<entry, file, data, idx, results, image_results, video_results,
                   all_results, scores_result, output_file, log>>

\* The place of the video stage the program is at, where a stage-level
\* exception can leave it: the constructor, or the head of a task (its
\* filter and its tqdm loop are outside the per-record try).
VideoStagePlace ==
    IF pc = "video_init" THEN "video_init"
    ELSE IF pc = "i2v_start" THEN "image_to_video"
    ELSE IF pc = "t2v_start" THEN "text_to_video"
    ELSE "video_prediction"

\* Lines 1304-1329: an exception leaves process_dataset (or the
\* constructor); the one handler replaces all three video results.
VideoStageRaise ==
    /\ pc \in {"video_init", "i2v_start", "t2v_start", "vp_start"}
    /\ entry = "main"
    /\ all_results' = Update(all_results, VideoPlaceholders)
    /\ log' = Append(log, StageRaised(VideoStagePlace))
    /\ pc' = "scores"
    /\ UNCHANGED <<entry, file, data, idx, results, image_results, video_results,
                   scores_result, output_file>>

\* Lines 1288-1303: a task process_dataset did not return gets the
\* placeholder; the results go into all_results.
VideoReturn ==
    /\ pc = "video_return"
    /\ all_results' =
          Update(all_results,
                 [t \in Range(video_tasks) |->
                     IF t \in DOMAIN video_results THEN video_results[t]
                     ELSE VideoPlaceholder])
    /\ pc' = "scores"
    /\ UNCHANGED <<entry, file, data, idx, results, image_results, video_results,
                   scores_result, output_file, log>>

\* Lines 1332-1334; calculate_task_scores run on its own stops after the
\* call.
CalcScores ==
    /\ pc = "scores"
    /\ scores_result' = calculate_task_scores(all_results)
    /\ all_results' =
          IF entry = "main"
          THEN Update(all_results,
                      [task_scores |-> scores_result'.task_scores,
                       generation_score |-> scores_result'.generation_score])
          ELSE all_results
    /\ pc' = Return("save")
    /\ UNCHANGED <<entry, file, data, idx, results, image_results, video_results,
                   output_file, log>>

\* Lines 1337-1354: the report is written, unless writing raises (the
\* handler logs the error and main goes on to the summary).
Save ==
    /\ pc = "save"
    /\ \E written \in BOOLEAN :
          output_file' = IF written THEN Report(all_results) ELSE FailedWrite
    /\ pc' = "done"
    /\ UNCHANGED <<entry, file, data, idx, results, image_results, video_results,
                   all_results, scores_result, log>>

\* Lines 1356-1405: the top-level handler builds the empty results, scores
\* them and tries to write them.
Fatal ==
    /\ pc = "fatal"
    /\ scores_result' = calculate_task_scores(EmptyResults)
    /\ \E written \in BOOLEAN :
          output_file' =
             IF written
             THEN Report(Update(EmptyResults,
                                [task_scores |-> scores_result'.task_scores,
                                 generation_score |-> scores_result'.generation_score]))
             ELSE FailedWrite
    /\ pc' = "done"
    /\ UNCHANGED <<entry, file, data, idx, results, image_results, video_results,
                   all_results, log>>

(***************************************************************************)
(* evaluate_image_tasks run on its own.                                    *)
(***************************************************************************)
ImageShapes ==
    {Item(c, 0, o, {"image", "edited_image", "video"}, TRUE) :
        c \in {Recon, Editing}, o \in {OutStr, OutDictImage, OutMissing, OutDictOther}}
    \cup {Item(c, 1, OutStr, {"image", "edited_image", "video"}, TRUE) :
            c \in {Recon, Editing, I2VCategory}}
    \cup {Item(Recon, 0, OutStr, {"video"}, TRUE),
          Item(Editing, 0, OutStr, {"image"}, TRUE),
          [Item(Recon, 0, OutStr, {}, TRUE) EXCEPT !.has_data = FALSE],
          Item(Generation, 0, OutStr, {"image"}, TRUE),
          Item(I2VCategory, 0, OutStr, {"image", "video"}, TRUE),
          Item(OtherCategory, 0, OutStr, {"image", "video"}, TRUE)}

NoFile == [parsable |-> FALSE, records |-> <<>>]

InitCommon ==
    /\ idx = 0
    /\ results = <<>>
    /\ image_results = <<>>
    /\ video_results = <<>>
    /\ all_results = <<>>
    /\ scores_result = <<>>
    /\ output_file = NoReport
    /\ log = <<>>

InitImage ==
    /\ entry = "evaluate_image_tasks"
    /\ pc = "image_init"
    /\ file = NoFile
    /\ data \in Datasets(ImageShapes)
    /\ InitCommon

NextImage == ImageInit \/ ImageStep \/ ImageFinish

SpecImage == InitImage /\ [][NextImage]_vars

(***************************************************************************)
(* process_dataset run on its own.                                         *)
(***************************************************************************)
VideoShapes ==
    {Item(I2VCategory, err, OutStr, {"image", "video"}, TRUE) : err \in {0, 1}}
    \cup {Item(I2VCategory, 0, OutStr, {"image", "video"}, FALSE),
          Item(I2VCategory, 0, OutStr, {"image"}, TRUE),
          Item(I2VCategory, 0, OutMissing, {"image", "video"}, TRUE),
          Item(I2VCategory, 0, OutDictOther, {"image", "video"}, TRUE),
          [Item(I2VCategory, 0, OutStr, {}, TRUE) EXCEPT !.has_data = FALSE]}
    \cup {Item(T2VCategory, err, OutStr, {"image"}, TRUE) : err \in {0, 1}}
    \cup {Item(T2VCategory, 0, OutStr, {}, TRUE)}
    \cup {Item(VPCategory, err, OutStr, {"image", "video"}, TRUE) : err \in {0, 1}}
    \cup {Item(VPCategory, 0, OutStr, {"video"}, TRUE),
          Item(Recon, 0, OutStr, {"image"}, TRUE),
          Item(OtherCategory, 0, OutStr, {"image", "video"}, TRUE)}

InitVideo ==
    /\ entry = "process_dataset"
    /\ pc = "i2v_start"
    /\ file = NoFile
    /\ data \in Datasets(VideoShapes)
    /\ InitCommon

NextVideo ==
    \/ I2VStart \/ I2VStep \/ I2VFinish
    \/ T2VStart \/ T2VStep \/ T2VFinish
    \/ VPStart \/ VPStep \/ VPFinish

SpecVideo == InitVideo /\ [][NextVideo]_vars

(***************************************************************************)
(* calculate_task_scores run on its own, on any results mapping.           *)
(***************************************************************************)
\* The aggregate of one category: absent is modelled by leaving the key out.
MetricDicts ==
    {[lpips |-> Rat(40, 1), score |-> Rat(90, 1)],
     [clip_i |-> Rat(70, 1), clip_t |-> Rat(20, 1), score |-> Rat(45, 1)],
     [score |-> Rat(50, 1)]}

CategoryScoreInputs ==
    UNION {[names -> MetricDicts] :
             names \in SUBSET {Recon, Editing, Generation, "Unknown_Task"}}

ImageTasksInputs ==
    {[total_samples |-> 0]}
    \cup {[total_samples |-> 0, category_scores |-> cs] : cs \in CategoryScoreInputs}

VideoTaskInputs ==
    {[total_samples |-> 0], VideoPlaceholder}
    \cup {[total_samples |-> 1, average_score |-> Rat(3, 10)]}

VideoInputs ==
    UNION {[names -> VideoTaskInputs] :
             names \in SUBSET {"image_to_video", "text_to_video", "video_prediction",
                               "audio_generation"}}

ResultsDicts ==
    VideoInputs
    \cup {Update(v, [image_tasks |-> i]) : v \in VideoInputs, i \in ImageTasksInputs}

InitCompose ==
    /\ entry = "calculate_task_scores"
    /\ pc = "scores"
    /\ file = NoFile
    /\ data = <<>>
    /\ idx = 0
    /\ results = <<>>
    /\ image_results = <<>>
    /\ video_results = <<>>
    /\ all_results \in ResultsDicts
    /\ scores_result = <<>>
    /\ output_file = NoReport
    /\ log = <<>>

NextCompose == CalcScores

SpecCompose == InitCompose /\ [][NextCompose]_vars

(***************************************************************************)
(* main                                                                    *)
(***************************************************************************)
MainShapes ==
    {Item(Recon, err, OutStr, {"image"}, TRUE) : err \in {0, 1}}
    \cup {Item(Editing, 0, OutStr, {"edited_image"}, TRUE),
          Item(I2VCategory, 0, OutStr, {"image", "video"}, TRUE),
          Item(T2VCategory, 0, OutStr, {"image"}, TRUE),
          Item(VPCategory, 0, OutStr, {"image", "video"}, TRUE),
          Item(OtherCategory, 0, OutStr, {"image", "video"}, TRUE)}

Init ==
    /\ entry = "main"
    /\ pc = "load"
    /\ file \in {NoFile} \cup {[parsable |-> TRUE, records |-> d] : d \in Datasets(MainShapes)}
    /\ data = <<>>
    /\ InitCommon

Next ==
    \/ Load \/ Fatal
    \/ ImageInit \/ ImageStep \/ ImageFinish \/ ImageStageRaise
    \/ VideoInit \/ VideoStageRaise \/ VideoReturn
    \/ I2VStart \/ I2VStep \/ I2VFinish
    \/ T2VStart \/ T2VStep \/ T2VFinish
    \/ VPStart \/ VPStep \/ VPFinish
    \/ CalcScores \/ Save

Spec == Init /\ [][Next]_vars

\* main is one sequential process: a step that can be taken is taken.
SpecLive == Spec /\ WF_vars(Next)

(***************************************************************************)
(* normalize_fvd run on its own, on two distances.                         *)
(***************************************************************************)
\* Distances calculate_fvd can return: non-negative numbers and infinity.
Distances == {0, 1, 250, 400, 500, 999, 1000, 1001, 1500, 2000, Inf}

\* d1 <= d2 on distances, infinity being the largest.
DistLe(d1, d2) == d2 = Inf \/ (d1 # Inf /\ d1 <= d2)

InitNormalize ==
    /\ entry = "normalize_fvd"
    /\ pc = "normalize"
    /\ file = NoFile
    /\ data = <<>>
    /\ idx = 0
    /\ results \in [fvd_score : Distances, other : Distances]
    /\ image_results = <<>>
    /\ video_results = <<>>
    /\ all_results = <<>>
    /\ scores_result = <<>>
    /\ output_file = NoReport
    /\ log = <<>>

\* Lines 780-783, called on each of the two distances.
NormalizeCall ==
    /\ pc = "normalize"
    /\ entry = "normalize_fvd"
    /\ scores_result' = [norm_fvd |-> normalize_fvd(results.fvd_score),
                         norm_other |-> normalize_fvd(results.other)]
    /\ pc' = "done"
    /\ UNCHANGED <<entry, file, data, idx, results, image_results, video_results,
                   all_results, output_file, log>>

NextNormalize == NormalizeCall

SpecNormalize == InitNormalize /\ [][NextNormalize]_vars

(***************************************************************************)
(* sample_frames_from_mp4 run on its own, on a readable video.             *)
(***************************************************************************)
\* The largest number of frames of a video.
MaxFrames == 31

\* The largest number of frames asked for.
MaxRequest == 23

InitSample ==
    /\ entry = "sample_frames_from_mp4"
    /\ pc = "sample"
    /\ file = NoFile
    /\ data = <<>>
    /\ idx = 0
    /\ results \in [total_frames : 1..MaxFrames, num_frames : 1..MaxRequest]
    /\ image_results = <<>>
    /\ video_results = <<>>
    /\ all_results = <<>>
    /\ scores_result = <<>>
    /\ output_file = NoReport
    /\ log = <<>>

\* Lines 629-669 on a video that exists, opens and has frames.
SampleCall ==
    /\ pc = "sample"
    /\ entry = "sample_frames_from_mp4"
    /\ scores_result' =
          [frame_paths |-> sample_frames_from_mp4(results.total_frames, results.num_frames)]
    /\ pc' = "done"
    /\ UNCHANGED <<entry, file, data, idx, results, image_results, video_results,
                   all_results, output_file, log>>

NextSample == SampleCall

SpecSample == InitSample /\ [][NextSample]_vars

(***************************************************************************)
(* Evaluate_Understanding.calculate_accuracy run on its own.               *)
(***************************************************************************)
\* The largest number of predictions in a list.
MaxPredictions == 3

\* pred.get('output'): the key is absent, or holds the empty string or an
\* option letter.
PredictionShapes ==
    [category : {"SIQA", "SVQA"}, output : {"absent", "", "A", "B"}, answer : {"A"}]

PredictionLists == UNION {[1..n -> PredictionShapes] : n \in 0..MaxPredictions}

\* Lines 27-30.
IsCorrect(pred) ==
    IF pred.output \in {"absent", ""} THEN FALSE ELSE pred.output = pred.answer

\* category_stats[category] of the defaultdict.
StatsOf(category_stats, category) ==
    IF category \in DOMAIN category_stats THEN category_stats[category]
    ELSE [correct |-> 0, total |-> 0]

\* A loop body that leaves out the predictions without an output.
CountPredictionSkipEmpty(res, pred) ==
    IF pred.output \in {"absent", ""} THEN res
    ELSE LET c == IF IsCorrect(pred) THEN 1 ELSE 0
             st == StatsOf(res.category_stats, pred.category)
         IN  [total_correct |-> res.total_correct + c,
              total_count |-> res.total_count + 1,
              category_stats |->
                  [k \in DOMAIN res.category_stats \cup {pred.category} |->
                      IF k = pred.category
                      THEN [correct |-> st.correct + c, total |-> st.total + 1]
                      ELSE res.category_stats[k]]]

\* Lines 24-38: the counters after one prediction.
CountPrediction(res, pred) ==
    LET c == IF IsCorrect(pred) THEN 1 ELSE 0
        st == StatsOf(res.category_stats, pred.category)
    IN  [total_correct |-> res.total_correct + c,
         total_count |-> res.total_count + 1,
         category_stats |->
             [k \in DOMAIN res.category_stats \cup {pred.category} |->
                 IF k = pred.category
                 THEN [correct |-> st.correct + c, total |-> st.total + 1]
                 ELSE res.category_stats[k]]]

\* Lines 41-47: a / b, or 0 when b is not positive.
Accuracy(correct, total) == IF total > 0 THEN Rat(correct, total) ELSE RatZero

InitAccuracy ==
    /\ entry = "calculate_accuracy"
    /\ pc = "accuracy_loop"
    /\ file = NoFile
    /\ data \in PredictionLists
    /\ idx = 0
    /\ results = [total_correct |-> 0, total_count |-> 0, category_stats |-> <<>>]
    /\ image_results = <<>>
    /\ video_results = <<>>
    /\ all_results = <<>>
    /\ scores_result = <<>>
    /\ output_file = NoReport
    /\ log = <<>>

\* Lines 23-38: one iteration of the loop.
AccuracyStep ==
    /\ pc = "accuracy_loop"
    /\ idx < Len(data)
    /\ results' = CountPrediction(results, data[idx + 1])
    /\ idx' = idx + 1
    /\ UNCHANGED <<entry, pc, file, data, image_results, video_results, all_results,
                   scores_result, output_file, log>>

\* Lines 40-49.
AccuracyFinish ==
    /\ pc = "accuracy_loop"
    /\ idx = Len(data)
    /\ scores_result' =
          [overall_accuracy |-> Accuracy(results.total_correct, results.total_count),
           category_accuracy |->
               [c \in DOMAIN results.category_stats |->
                   Accuracy(results.category_stats[c].correct,
                            results.category_stats[c].total)]]
    /\ pc' = "done"
    /\ UNCHANGED <<entry, file, data, idx, results, image_results, video_results,
                   all_results, output_file, log>>

NextAccuracy == AccuracyStep \/ AccuracyFinish

SpecAccuracy == InitAccuracy /\ [][NextAccuracy]_vars

(***************************************************************************)
(* Evaluate_IEE.evaluate_results.                                          *)
(***************************************************************************)
\* The largest number of samples in a result file of Evaluate_IEE and of
\* Evaluate_VSP.
MaxSamples == 2

\* A sample: whether it has every required field, a non-empty explanation,
\* a non-empty choice list, a non-empty output image, the four image keys
\* in its data, and whether the four comparison images exist.
IEESample(complete, explanation, choices, output_image, data_keys, files) ==
    [complete |-> complete, explanation |-> explanation, choices |-> choices,
     output_image |-> output_image, data_keys |-> data_keys, files |-> files,
     answer |-> "A"]

IEEShapes ==
    {IEESample(TRUE, TRUE, TRUE, TRUE, TRUE, TRUE),
     IEESample(FALSE, TRUE, TRUE, TRUE, TRUE, TRUE),
     IEESample(TRUE, FALSE, TRUE, TRUE, TRUE, TRUE),
     IEESample(TRUE, TRUE, FALSE, TRUE, TRUE, TRUE),
     IEESample(TRUE, TRUE, TRUE, FALSE, TRUE, TRUE),
     IEESample(TRUE, TRUE, TRUE, TRUE, FALSE, TRUE),
     IEESample(TRUE, TRUE, TRUE, TRUE, TRUE, FALSE)}

IEELists == UNION {[1..n -> IEEShapes] : n \in 0..MaxSamples}

\* What compute_text_similarity does: it returns None, raises before its
\* own try (a choice value that is no list), or returns similarities whose
\* largest is at the choice of the letter.
TextOutcomes == {"None", "raise", "A", "B"}

\* What compute_image_similarity does: it returns None, or similarities
\* whose largest is at the edited image or at a fake one.
ImageOutcomes == {"None", "edited", "fake"}

NotAttempted == [attempted |-> FALSE, correct |-> FALSE, failed |-> FALSE]

\* Lines 159-175: sample_metrics['text'].
EvaluateText(sample, t) ==
    IF sample.explanation /\ sample.choices
    THEN IF t \in {"None", "raise"}
         THEN [attempted |-> TRUE, correct |-> FALSE, failed |-> TRUE]
         ELSE [attempted |-> TRUE, correct |-> (t = sample.answer), failed |-> FALSE]
    ELSE NotAttempted

\* Lines 178-196: sample_metrics['image']; a missing image key raises at
\* lines 181-184, before the attempt.
EvaluateImage(sample, im) ==
    IF ~sample.data_keys
    THEN [attempted |-> FALSE, correct |-> FALSE, failed |-> TRUE]
    ELSE IF sample.output_image /\ sample.files
    THEN IF im = "None"
         THEN [attempted |-> TRUE, correct |-> FALSE, failed |-> TRUE]
         ELSE [attempted |-> TRUE, correct |-> (im = "edited"), failed |-> FALSE]
    ELSE NotAttempted

\* Lines 200-207 and 210-217: one set of counters after a sample that was
\* attempted, correct, failed as given.
CountTask(m, attempted, correct, failed) ==
    IF attempted
    THEN [m EXCEPT !.attempted = @ + 1, !.correct = IF correct THEN @ + 1 ELSE @]
    ELSE IF failed
    THEN [m EXCEPT !.failed = @ + 1]
    ELSE [m EXCEPT !.skipped = @ + 1]

\* Lines 198-217.
UpdateMetrics(metrics, st, si) ==
    [text |-> CountTask(metrics.text, st.attempted, st.correct, st.failed),
     image |-> CountTask(metrics.image, si.attempted, si.correct, si.failed),
     combined |-> CountTask(metrics.combined, st.attempted /\ si.attempted,
                            st.correct /\ si.correct, st.failed \/ si.failed)]

\* Lines 222-232: the counters of one metric with their rates.
MetricsReport(m, total_samples) ==
    [total |-> m.total,
     attempted |-> m.attempted, attempted_rate |-> Rat(m.attempted * 100, total_samples),
     correct |-> m.correct, accuracy |-> Rat(m.correct * 100, total_samples),
     skipped |-> m.skipped, skip_rate |-> Rat(m.skipped * 100, total_samples),
     failed |-> m.failed, failure_rate |-> Rat(m.failed * 100, total_samples)]

InitIEE ==
    /\ entry = "evaluate_results"
    /\ pc = "iee_load"
    /\ file \in {NoFile} \cup {[parsable |-> TRUE, records |-> d] : d \in IEELists}
    /\ data = <<>>
    /\ InitCommon

\* Lines 91-130: the file is read and the counters are set up; a file that
\* cannot be read and an empty list (results[0], line 130) raise, and the
\* handler of lines 277-279 returns None.
IEEStart ==
    /\ pc = "iee_load"
    /\ IF file.parsable /\ file.records # <<>>
       THEN LET zero == [total |-> Len(file.records), attempted |-> 0, skipped |-> 0,
                         correct |-> 0, failed |-> 0]
            IN  /\ data' = file.records
                /\ results' = [text |-> zero, image |-> zero, combined |-> zero]
                /\ scores_result' = scores_result
                /\ pc' = "iee_loop"
       ELSE /\ data' = IF file.parsable THEN file.records ELSE data
            /\ results' = results
            /\ scores_result' = None
            /\ pc' = "done"
    /\ idx' = 0
    /\ UNCHANGED <<entry, file, image_results, video_results, all_results,
                   output_file, log>>

\* Lines 132-217: one iteration; a sample with a missing field is left at
\* line 156.
IEEStep ==
    /\ pc = "iee_loop"
    /\ idx < Len(data)
    /\ LET sample == data[idx + 1] IN
       IF ~sample.complete
       THEN /\ results' = results
            /\ log' = Append(log, [id |-> idx + 1, path |-> "missing_fields",
                                   text |-> NotAttempted, image |-> NotAttempted])
       ELSE \E t \in TextOutcomes, im \in ImageOutcomes :
               LET st == EvaluateText(sample, t)
                   si == EvaluateImage(sample, im)
               IN  /\ results' = UpdateMetrics(results, st, si)
                   /\ log' = Append(log, [id |-> idx + 1, path |-> "counted",
                                          text |-> st, image |-> si])
    /\ idx' = idx + 1
    /\ UNCHANGED <<entry, pc, file, data, image_results, video_results, all_results,
                   scores_result, output_file>>

\* Lines 219-275: the report is built, written and returned; a write that
\* raises ends in the handler of lines 277-279.
IEEFinish ==
    /\ pc = "iee_loop"
    /\ idx = Len(data)
    /\ LET results_dict ==
              [total_samples |-> Len(data),
               text_metrics |-> MetricsReport(results.text, Len(data)),
               image_metrics |-> MetricsReport(results.image, Len(data)),
               combined_metrics |-> MetricsReport(results.combined, Len(data))]
       IN  \/ output_file' = Report(results_dict) /\ scores_result' = results_dict
           \/ output_file' = FailedWrite /\ scores_result' = None
    /\ pc' = "done"
    /\ UNCHANGED <<entry, file, data, idx, results, image_results, video_results,
                   all_results, log>>

NextIEE == IEEStart \/ IEEStep \/ IEEFinish

SpecIEE == InitIEE /\ [][NextIEE]_vars

(***************************************************************************)
(* Evaluate_VSP.VisualCoTEvaluator.                                        *)
(***************************************************************************)
\* outputs.get('output_step_i'): None, or a dict whose output_action and
\* output_location are absent, equal to the ground truth or different from
\* it, and whose output_image is empty or not.
StepOut(action, location, image) ==
    [present |-> TRUE, action |-> action, location |-> location, image |-> image]

NoStepOut == [present |-> FALSE, action |-> "absent", location |-> "absent", image |-> FALSE]

\* A sample: its subcategory, the number of Step_i images of its data, and
\* the output of each of its len(data['Action']) steps.
VSPSample(subcategory, gt, steps) ==
    [subcategory |-> subcategory, gt |-> gt, steps |-> steps]

VSPShapes ==
    {VSPSample("maze", 0, <<>>),
     VSPSample("maze", 1, <<StepOut("right", "right", TRUE)>>),
     VSPSample("maze", 2, <<StepOut("right", "right", TRUE), StepOut("right", "right", TRUE)>>),
     VSPSample("maze", 2, <<StepOut("right", "right", TRUE), NoStepOut>>),
     VSPSample("sliding", 2, <<StepOut("wrong", "right", TRUE)>>),
     VSPSample("sliding", 1, <<StepOut("right", "absent", TRUE)>>),
     VSPSample("sliding", 1, <<StepOut("right", "right", FALSE)>>),
     VSPSample("sliding", 0, <<StepOut("right", "right", TRUE)>>)}

VSPLists == UNION {[1..n -> VSPShapes] : n \in 0..MaxSamples}

\* Per ground-truth image, what the similarity computation of a step does.
SimEnvs(n) ==
    [1..n -> {NoSim, Sim(3, 4)}]
    \cup {[j \in 1..n |-> IF j = 1 THEN Sim(1, 4) ELSE Sim(3, 4)]}

\* Lines 23-44: the similarity, or 0.0 when the computation raised.
calculate_clip_similarity(o) == IF o.ok THEN o.v ELSE RatZero

\* np.argmax: the first position (from 0) of the largest value.
ArgMax(similarities) ==
    CHOOSE i \in 0..(Len(similarities) - 1) :
        /\ \A j \in 1..Len(similarities) : RatLe(similarities[j], similarities[i + 1])
        /\ \A j \in 1..i : ~RatLe(similarities[i + 1], similarities[j])

Aspect(attempted, correct) == [attempted |-> attempted, correct |-> correct]

\* Lines 46-95; sims are the outcomes of the similarity computations, one
\* per ground-truth image.
evaluate_step(output_step, step_idx, sims) ==
    IF ~output_step.present
    THEN [action |-> Aspect(FALSE, FALSE), location |-> Aspect(FALSE, FALSE),
          image |-> Aspect(FALSE, FALSE)]
    ELSE [action |-> Aspect(output_step.action # "absent", output_step.action = "right"),
          location |-> Aspect(output_step.location # "absent",
                              output_step.location = "right"),
          image |->
              IF output_step.image /\ sims # <<>>
              THEN LET similarities ==
                           [j \in 1..Len(sims) |-> calculate_clip_similarity(sims[j])]
                   IN  Aspect(TRUE, ArgMax(similarities) = step_idx)
              ELSE Aspect(FALSE, FALSE)]

\* A sample evaluation that leaves the image aspect out of
\* all_steps_correct.
evaluate_sample_ignoring_image(sample, env) ==
    LET step_results ==
            [i \in 1..Len(sample.steps) |-> evaluate_step(sample.steps[i], i - 1, env[i])]
    IN  [subcategory |-> sample.subcategory,
         step_results |-> step_results,
         all_steps_attempted |->
             \A i \in DOMAIN step_results :
                 /\ step_results[i].action.attempted
                 /\ step_results[i].location.attempted
                 /\ step_results[i].image.attempted,
         all_steps_correct |->
             \A i \in DOMAIN step_results :
                 /\ step_results[i].action.correct
                 /\ step_results[i].location.correct]

\* Lines 97-136; env[i] are the similarity outcomes of step i - 1.
evaluate_sample(sample, env) ==
    LET step_results ==
            [i \in 1..Len(sample.steps) |-> evaluate_step(sample.steps[i], i - 1, env[i])]
    IN  [subcategory |-> sample.subcategory,
         step_results |-> step_results,
         all_steps_attempted |->
             \A i \in DOMAIN step_results :
                 /\ step_results[i].action.attempted
                 /\ step_results[i].location.attempted
                 /\ step_results[i].image.attempted,
         all_steps_correct |->
             \A i \in DOMAIN step_results :
                 /\ step_results[i].action.correct
                 /\ step_results[i].location.correct
                 /\ step_results[i].image.correct]

\* Lines 166-173: the counters of the subcategories after one evaluation.
CountSubcategory(subcategory_metrics, evaluation) ==
    LET c == evaluation.subcategory
        old == IF c \in DOMAIN subcategory_metrics THEN subcategory_metrics[c]
               ELSE [total |-> 0, attempted |-> 0, correct |-> 0, skipped |-> 0]
        new == IF evaluation.all_steps_attempted
               THEN [old EXCEPT !.total = @ + 1, !.attempted = @ + 1,
                                !.correct = IF evaluation.all_steps_correct
                                            THEN @ + 1 ELSE @]
               ELSE [old EXCEPT !.total = @ + 1, !.skipped = @ + 1]
    IN  [k \in DOMAIN subcategory_metrics \cup {c} |->
            IF k = c THEN new ELSE subcategory_metrics[k]]

\* Lines 179-185: the counters of one aspect of one step.
CountAspect(m, r) ==
    IF r.attempted
    THEN [m EXCEPT !.attempted = @ + 1, !.correct = IF r.correct THEN @ + 1 ELSE @]
    ELSE [m EXCEPT !.skipped = @ + 1]

\* Lines 176-185: the counters of the steps after one evaluation.
CountSteps(step_metrics, step_results, total_samples) ==
    LET zero == [attempted |-> 0, correct |-> 0, skipped |-> 0]
        old(k) == IF k \in DOMAIN step_metrics THEN step_metrics[k]
                  ELSE [total |-> total_samples, action |-> zero, location |-> zero,
                        image |-> zero]
    IN  [k \in DOMAIN step_metrics \cup DOMAIN step_results |->
            IF k \in DOMAIN step_results
            THEN [total |-> old(k).total,
                  action |-> CountAspect(old(k).action, step_results[k].action),
                  location |-> CountAspect(old(k).location, step_results[k].location),
                  image |-> CountAspect(old(k).image, step_results[k].image)]
            ELSE step_metrics[k]]

\* The similarity computations a step makes: one per ground-truth image
\* when it has an output image, none otherwise.
StepEnvs(sample, i) ==
    IF sample.steps[i].present /\ sample.steps[i].image
    THEN SimEnvs(sample.gt)
    ELSE {<<>>}

InitVSP ==
    /\ entry = "calculate_accuracies"
    /\ pc = "vsp_loop"
    /\ file = NoFile
    /\ data \in VSPLists
    /\ idx = 0
    /\ results = [total_samples |-> Len(data), step_metrics |-> <<>>,
                  subcategory_metrics |-> <<>>]
    /\ image_results = <<>>
    /\ video_results = <<>>
    /\ all_results = <<>>
    /\ scores_result = <<>>
    /\ output_file = NoReport
    /\ log = <<>>

\* Lines 162-185: one iteration of the loop over the samples.
VSPStep ==
    /\ pc = "vsp_loop"
    /\ idx < Len(data)
    /\ LET sample == data[idx + 1] IN
       \E env \in {e \in [1..Len(sample.steps) -> UNION {StepEnvs(sample, i) :
                                                         i \in 1..Len(sample.steps)}] :
                       \A i \in 1..Len(sample.steps) : e[i] \in StepEnvs(sample, i)} :
          LET evaluation == evaluate_sample(sample, env) IN
          /\ results' =
                [results EXCEPT
                    !.subcategory_metrics = CountSubcategory(@, evaluation),
                    !.step_metrics = CountSteps(@, evaluation.step_results,
                                                results.total_samples)]
          /\ log' = Append(log, [id |-> idx + 1, env |-> env, evaluation |-> evaluation])
    /\ idx' = idx + 1
    /\ UNCHANGED <<entry, pc, file, data, image_results, video_results, all_results,
                   scores_result, output_file>>

\* Lines 187-223: the counters with their rates.
VSPFinish ==
    /\ pc = "vsp_loop"
    /\ idx = Len(data)
    /\ scores_result' =
          [total_samples |-> results.total_samples,
           step_accuracies |-> results.step_metrics,
           subcategory_accuracies |->
               [c \in DOMAIN results.subcategory_metrics |->
                   LET d == results.subcategory_metrics[c] IN
                   [total |-> d.total,
                    attempted |-> d.attempted,
                    attempted_rate |-> Rat(d.attempted * 100, results.total_samples),
                    correct |-> d.correct,
                    accuracy |-> Rat(d.correct * 100, results.total_samples),
                    skipped |-> d.skipped,
                    skip_rate |-> Rat(d.skipped * 100, results.total_samples)]]]
    /\ pc' = "done"
    /\ UNCHANGED <<entry, file, data, idx, results, image_results, video_results,
                   all_results, output_file, log>>

NextVSP == VSPStep \/ VSPFinish

SpecVSP == InitVSP /\ [][NextVSP]_vars

(***************************************************************************)
(* Evaluate_Text_Image_Generation.evaluate_generations.                    *)
(***************************************************************************)
\* The largest number of entries in the file evaluate_generations reads.
MaxEntries == 3

\* An entry: its category and whether its output and reference files
\* exist.
TIGShapes ==
    [category : {Generation, Editing}, output_exists : BOOLEAN, reference_exists : {TRUE}]
    \cup {[category |-> Generation, output_exists |-> TRUE, reference_exists |-> FALSE]}

TIGLists == UNION {[1..n -> TIGShapes] : n \in 0..MaxEntries}

\* Whether a metric call returned a number or None (its handler).
MetricOutcomes ==
    {[clip_i |-> a, clip_t |-> b, lpips_d |-> a] : a, b \in {"number", "None"}}

\* np.mean of the values that are not None: nan for none at all.
MeanOfPresent(rs, metric) ==
    IF \E k \in DOMAIN rs : rs[k][metric] = "number" THEN "number" ELSE "nan"

InitTIG ==
    /\ entry = "evaluate_generations"
    /\ pc = "tig_load"
    /\ file \in {[parsable |-> TRUE, records |-> d] : d \in TIGLists}
    /\ data = <<>>
    /\ InitCommon

\* Lines 157-167: the entries of the category are kept.
TIGStart ==
    /\ pc = "tig_load"
    /\ data' = SelectSeq(file.records, LAMBDA entry_ : entry_.category = Generation)
    /\ results' = [real_features |-> <<>>, fake_features |-> <<>>, results |-> <<>>]
    /\ idx' = 0
    /\ pc' = "tig_features"
    /\ UNCHANGED <<entry, file, image_results, video_results, all_results,
                   scores_result, output_file, log>>

\* Lines 170-188: one iteration of the feature loop; get_features returns
\* None when it fails.
TIGFeature ==
    /\ pc = "tig_features"
    /\ idx < Len(data)
    /\ LET e == data[idx + 1] IN
       IF ~e.output_exists \/ ~e.reference_exists
       THEN results' = results
       ELSE \E real_ok, fake_ok \in BOOLEAN :
               results' = IF real_ok /\ fake_ok
                          THEN [results EXCEPT !.real_features = Append(@, idx + 1),
                                               !.fake_features = Append(@, idx + 1)]
                          ELSE results
    /\ idx' = idx + 1
    /\ UNCHANGED <<entry, pc, file, data, image_results, video_results, all_results,
                   scores_result, output_file, log>>

\* Lines 190-192: np.stack raises ValueError on an empty list, outside
\* every try; compute_fid returns a number, nan or None.
TIGStack ==
    /\ pc = "tig_features"
    /\ idx = Len(data)
    /\ IF results.real_features = <<>>
       THEN /\ pc' = "raised"
            /\ all_results' = all_results
       ELSE /\ pc' = "tig_metrics"
            /\ \E fid \in {"number", "nan", "None"} : all_results' = [FID |-> fid]
    /\ idx' = 0
    /\ UNCHANGED <<entry, file, data, results, image_results, video_results,
                   scores_result, output_file, log>>

\* Lines 195-222: one iteration of the metric loop.
TIGMetric ==
    /\ pc = "tig_metrics"
    /\ idx < Len(data)
    /\ LET e == data[idx + 1] IN
       IF ~e.output_exists \/ ~e.reference_exists
       THEN results' = results
       ELSE \E o \in MetricOutcomes :
               results' = [results EXCEPT !.results = Append(@, o)]
    /\ idx' = idx + 1
    /\ UNCHANGED <<entry, pc, file, data, image_results, video_results, all_results,
                   scores_result, output_file, log>>

\* Lines 224-241: the averages, the results file and the return.
TIGFinish ==
    /\ pc = "tig_metrics"
    /\ idx = Len(data)
    /\ LET output_results ==
              [individual_results |-> results.results,
               average_metrics |->
                   [clip_i |-> MeanOfPresent(results.results, "clip_i"),
                    clip_t |-> MeanOfPresent(results.results, "clip_t"),
                    lpips_d |-> MeanOfPresent(results.results, "lpips_d"),
                    FID |-> all_results.FID]]
       IN  /\ output_file' = Report(output_results)
           /\ scores_result' = output_results
    /\ pc' = "done"
    /\ UNCHANGED <<entry, file, data, idx, results, image_results, video_results,
                   all_results, log>>

NextTIG == TIGStart \/ TIGFeature \/ TIGStack \/ TIGMetric \/ TIGFinish

SpecTIG == InitTIG /\ [][NextTIG]_vars

(***************************************************************************)
(* Properties.                                                             *)
(***************************************************************************)
ImageDone == entry = "evaluate_image_tasks" /\ pc = "done"

\* The values of metric m over the results kept for a category.
MetricValues(items, m) == [i \in 1..Len(items) |-> items[i][m]]

\* C1: every aggregated metric of every image category is the mean of the
\* metric over all records of that category, the records that were skipped
\* or whose metric call raised counting as zeros in the sum and as records
\* in the denominator.
C1_MeanOverAllRecords ==
    ImageDone =>
        \A c \in DOMAIN image_results.category_scores :
            \A m \in DOMAIN image_results.category_scores[c] :
                RatEq(image_results.category_scores[c][m],
                      RatDiv(RatSum(MetricValues(image_results.categories[c], m)),
                             Len(FilterCategory(data, c))))

\* C4: after evaluate_image_tasks, every record is counted once, as
\* processed or as skipped.
C4_ImageCountersPartition ==
    ImageDone =>
        image_results.processed_samples + image_results.skipped_samples
            = image_results.total_samples

ComposeDone == entry = "calculate_task_scores" /\ pc = "done"

ExpectedTasks == Range(image_tasks) \cup Range(video_tasks)

\* A results mapping without the task names calculate_task_scores does not
\* expect.
KnownOnly(results_dict) ==
    [k \in (DOMAIN results_dict) \cap ({"image_tasks"} \cup Range(video_tasks)) |->
        IF k = "image_tasks" /\ "category_scores" \in DOMAIN results_dict[k]
        THEN [results_dict[k] EXCEPT !.category_scores =
                 [c \in (DOMAIN @) \cap Range(image_tasks) |-> @[c]]]
        ELSE results_dict[k]]

\* The video tasks of a mapping that are absent or have no record.
EmptyVideoTasks(results_dict) ==
    {t \in Range(video_tasks) :
        \/ t \notin DOMAIN results_dict
        \/ results_dict[t].total_samples = 0}

\* The image tasks a mapping holds no aggregate for.
AbsentImageTasks(results_dict) ==
    {t \in Range(image_tasks) :
        \/ "image_tasks" \notin DOMAIN results_dict
        \/ "category_scores" \notin DOMAIN results_dict["image_tasks"]
        \/ t \notin DOMAIN results_dict["image_tasks"]["category_scores"]}

\* C2: for every results mapping, calculate_task_scores returns task_scores
\* with exactly the six expected task names and a generation_score that is
\* the sum of the six scores divided by 6; a task that is absent or has no
\* record scores 0, and unknown task names in the input change nothing.
C2_SixTasksFixedDenominator ==
    ComposeDone =>
        /\ DOMAIN scores_result.task_scores = ExpectedTasks
        /\ Cardinality(ExpectedTasks) = 6
        /\ RatEq(scores_result.generation_score,
                 RatDiv(SumKeys(scores_result.task_scores, ExpectedTasks), 6))
        /\ \A t \in EmptyVideoTasks(all_results) \cup AbsentImageTasks(all_results) :
              scores_result.task_scores[t] = RatZero
        /\ scores_result = calculate_task_scores(KnownOnly(all_results))

\* C2 happens: an input with an unknown video task and an unknown image
\* category, without text_to_video, and with a score that is not zero.
C2_Witness ==
    /\ ComposeDone
    /\ "audio_generation" \in DOMAIN all_results
    /\ "text_to_video" \notin DOMAIN all_results
    /\ "image_tasks" \in DOMAIN all_results
    /\ "category_scores" \in DOMAIN all_results["image_tasks"]
    /\ "Unknown_Task" \in DOMAIN all_results["image_tasks"]["category_scores"]
    /\ scores_result.generation_score # RatZero

\* The history of one task's record loop.
LogOf(task) == SelectSeq(log, LAMBDA x : x.task = task /\ x.status # "stage_raise")

ImageFinished == "category_scores" \in DOMAIN image_results

\* The results an image category keeps, given the history l of the loop: the
\* result of each of its records, in order, computed from that record and
\* the outcome of its own calls.
RECURSIVE KeptResults(_, _)
KeptResults(l, c) ==
    IF l = <<>> THEN <<>>
    ELSE LET o == EvaluateImageItem(data[Head(l).id], Head(l).env) IN
         (IF data[Head(l).id].category = c /\ o.kind = "result"
          THEN <<o.result>> ELSE <<>>)
         \o KeptResults(Tail(l), c)

CategoryList(categories, c) ==
    IF c \in DOMAIN categories THEN categories[c] ELSE <<>>

\* C3: an exception of a record's calls does not leave the record loop of
\* evaluate_image_tasks or of a video task: when the loop has ended every
\* record has been evaluated, in order, and each record's result is the one
\* its own fields and the outcome of its own calls give, whatever happened
\* to the other records.
C3_FailureIsolated ==
    /\ ImageFinished =>
          LET l == LogOf("image_tasks") IN
          /\ Len(l) = Len(data)
          /\ \A k \in 1..Len(l) :
                /\ l[k].id = k
                /\ l[k].status = ImageStatus(EvaluateImageItem(data[k], l[k].env))
          /\ \A c \in ImageCategories :
                CategoryList(image_results.categories, c) = KeptResults(l, c)
    /\ \A t \in DOMAIN video_results :
          LET l == LogOf(t)
              d == TaskData(t)
              r == video_results[t].sample_scores
          IN  /\ Len(l) = Len(d)
              /\ Len(r) = Len(d)
              /\ \A k \in 1..Len(d) :
                    k <= Len(l) /\ k <= Len(r) =>
                       /\ l[k].id = d[k].id
                       /\ r[k] = TaskSample(t, d[k], l[k].env).entry

\* Whether the loop of the task has ended.
LoopEnded(task) ==
    IF task = "image_tasks" THEN ImageFinished ELSE task \in DOMAIN video_results

\* C3 happens: in a loop that has ended, a record whose calls raised is
\* followed by a record that was processed.
C3_Witness ==
    \E i, j \in DOMAIN log :
        /\ i < j
        /\ log[i].task = log[j].task
        /\ log[i].path \in {"except", "inner_except"}
        /\ log[i].called
        /\ log[j].status = "processed"
        /\ LoopEnded(log[i].task)

VideoLoopTask ==
    IF pc = "i2v_loop" THEN "image_to_video"
    ELSE IF pc = "t2v_loop" THEN "text_to_video"
    ELSE "video_prediction"

\* C5: in each video task every matching record is counted once, as
\* processed or as skipped: while the loop runs the two counters add up to
\* the number of records done, and after it to total_samples, the number of
\* matching records.
C5_VideoCountersPartition ==
    /\ pc \in {"i2v_loop", "t2v_loop", "vp_loop"} =>
          /\ results.processed_samples + results.skipped_samples = idx
          /\ results.total_samples = Len(TaskData(VideoLoopTask))
    /\ \A t \in DOMAIN video_results :
          /\ video_results[t].processed_samples + video_results[t].skipped_samples
                = video_results[t].total_samples
          /\ video_results[t].total_samples = Len(TaskData(t))

\* C5 happens: a task ended with a processed record and a record skipped
\* in the else branch of the feature check.
C5_Witness ==
    /\ pc = "done"
    /\ \E t \in DOMAIN video_results :
          /\ video_results[t].processed_samples = 1
          /\ video_results[t].skipped_samples = 1
          /\ \E k \in DOMAIN log : log[k].task = t /\ log[k].path = "invalid"

Scores(sample_scores) == [i \in 1..Len(sample_scores) |-> sample_scores[i].score]

\* C6: the average_score of a video task is the sum of the scores of all
\* matching records divided by their number, a skipped record being in the
\* list with score 0; it is 0 when no record matches.
C6_AverageOverAllMatching ==
    \A t \in DOMAIN video_results :
        LET r == video_results[t]
            n == Len(TaskData(t))
            l == LogOf(t)
        IN  /\ Len(r.sample_scores) = n
            /\ \A k \in 1..Len(r.sample_scores) :
                  k <= Len(l) /\ l[k].status = "skipped" =>
                     r.sample_scores[k].score = RatZero
            /\ IF n = 0
               THEN r.average_score = RatZero
               ELSE RatEq(r.average_score, RatDiv(RatSum(Scores(r.sample_scores)), n))

\* C6 happens: a task of two records, one skipped and one processed with a
\* score that is not zero.
C6_Witness ==
    \E t \in DOMAIN video_results :
        /\ video_results[t].total_samples = 2
        /\ video_results[t].processed_samples = 1
        /\ video_results[t].skipped_samples = 1
        /\ video_results[t].average_score # RatZero

\* C7: a record whose error flag is not zero is short-circuited in every
\* task: it is counted as skipped and no call is made for it.
C7_ErrorFlagShortCircuits ==
    \A k \in DOMAIN log :
        log[k].id # 0 /\ data[log[k].id].error # 0 =>
            log[k].status = "skipped" /\ ~log[k].called

\* C8: a video-prediction record that passes validation and whose videos
\* can be read is processed with score (normalize(fid) + normalize(fvd)) / 2
\* when the FVD features are valid, and with normalize(fid) when they are
\* not and the FID is finite.
C8_VideoPredictionScore ==
    "video_prediction" \in DOMAIN video_results =>
        LET l == LogOf("video_prediction")
            r == video_results["video_prediction"].sample_scores
        IN  \A k \in 1..Len(l) :
                LET e == l[k].env IN
                e.kind = "video" /\ e.gen_ok /\ e.ref_ok /\ e.fid # Inf =>
                    /\ l[k].status = "processed"
                    /\ r[k].score =
                          IF e.feat_ok
                          THEN RatDiv(RatAdd(normalize_fvd(e.fid), normalize_fvd(e.fvd)), 2)
                          ELSE normalize_fvd(e.fid)

MainDone == entry = "main" /\ pc = "done"

\* Whether a written report holds the six tasks, all with score 0.
AllZeroReport(doc) ==
    /\ {"image_tasks"} \cup Range(video_tasks) \subseteq DOMAIN doc
    /\ DOMAIN doc.task_scores = ExpectedTasks
    /\ \A t \in ExpectedTasks : doc.task_scores[t] = RatZero
    /\ doc.generation_score = RatZero

\* C9 as stated: main ends with a written report, and with the all-zero
\* report of the six tasks when the input file cannot be parsed.
C9_AlwaysEmitsReport ==
    MainDone =>
        /\ output_file.written
        /\ ~file.parsable => AllZeroReport(output_file.doc)

\* What main has done with the report when it has ended.
ReportAttempted ==
    /\ MainDone => output_file.attempted
    /\ MainDone /\ output_file.written =>
          /\ {"image_tasks"} \cup Range(video_tasks) \subseteq DOMAIN output_file.doc
          /\ DOMAIN output_file.doc.task_scores = ExpectedTasks
          /\ output_file.doc.task_scores = scores_result.task_scores
          /\ output_file.doc.generation_score = scores_result.generation_score
    /\ MainDone /\ ~file.parsable /\ output_file.written =>
          AllZeroReport(output_file.doc)

\* C9: main always completes and always tries to write a report; a report
\* that is written holds the six expected tasks, and when the input file
\* cannot be parsed all six scores and generation_score are 0.  The report
\* exists whenever the write to the output file succeeds.
C9_ReportAttempted == <>(pc = "done") /\ []ReportAttempted

\* C9 happens: the input file could not be parsed and the report of the
\* top-level handler was written.
C9_Witness == MainDone /\ ~file.parsable /\ output_file.written

\* Whether the history holds a stage-level exception at the place.
RaisedAt(place) ==
    \E k \in DOMAIN log : log[k].status = "stage_raise" /\ log[k].task = place

VideoStageRaised ==
    \E place \in {"video_init"} \cup Range(video_tasks) : RaisedAt(place)

\* main is past both stages.
StagesDone == entry = "main" /\ file.parsable /\ pc \in {"scores", "save", "done"}

\* The image stage is isolated: its placeholder if it raised, else the
\* result of evaluate_image_tasks over the whole dataset.
ImageStageIsolated ==
    IF RaisedAt("image_tasks")
    THEN all_results["image_tasks"] = ImagePlaceholder
    ELSE /\ ImageFinished
         /\ all_results["image_tasks"] = image_results
         /\ image_results.total_samples = Len(data)

\* C10 as stated: only the task whose stage raised gets the placeholder;
\* every other task is evaluated and keeps its computed result.
C10_TaskIsolation ==
    StagesDone =>
        /\ ImageStageIsolated
        /\ \A t \in Range(video_tasks) :
              IF RaisedAt(t) \/ RaisedAt("video_init")
              THEN all_results[t] = VideoPlaceholder
              ELSE /\ t \in DOMAIN video_results
                   /\ all_results[t] = video_results[t]

\* C10: the image stage and the video stage are isolated from each other:
\* a stage-level exception of the image stage leaves the three video tasks
\* evaluated and intact, and a stage-level exception anywhere in the video
\* stage leaves the image tasks intact and replaces the results of all
\* three video tasks, those already computed too, by all-zero placeholders.
C10_StageIsolation ==
    StagesDone =>
        /\ ImageStageIsolated
        /\ IF VideoStageRaised
           THEN \A t \in Range(video_tasks) : all_results[t] = VideoPlaceholder
           ELSE \A t \in Range(video_tasks) :
                   /\ t \in DOMAIN video_results
                   /\ all_results[t] = video_results[t]
                   /\ video_results[t].total_samples = Len(TaskData(t))

\* C10 happens: the video stage raised at text_to_video after
\* image_to_video had processed a record, and the image stage had processed
\* a record.
C10_Witness ==
    /\ MainDone
    /\ RaisedAt("text_to_video")
    /\ ~RaisedAt("image_tasks")
    /\ ImageFinished
    /\ image_results.processed_samples >= 1
    /\ "image_to_video" \in DOMAIN video_results
    /\ video_results["image_to_video"].processed_samples >= 1

NormalizeDone == entry = "normalize_fvd" /\ pc = "done"

\* C11: for every distance d >= 0, normalize_fvd(d) lies in [0, 1], is 1
\* for d = 0, is 0 for every d >= 1000 (infinity included), and does not
\* increase when d increases.
C11_NormalizeClamped ==
    NormalizeDone =>
        LET d == results.fvd_score
            r == scores_result.norm_fvd
        IN  /\ RatLe(RatZero, r) /\ RatLe(r, Rat(1, 1))
            /\ d = 0 => r = Rat(1, 1)
            /\ DistLe(FvdMax, d) => r = RatZero
            /\ DistLe(d, results.other) => RatLe(scores_result.norm_other, r)

\* C11 happens: a distance strictly inside the range and a larger one
\* beyond the maximum, infinity among them.
C11_Witness ==
    /\ NormalizeDone
    /\ results.fvd_score = 250
    /\ results.other = Inf
    /\ scores_result.norm_fvd = Rat(3, 4)
    /\ scores_result.norm_other = RatZero

\* The data key a task reads its reference from.
ReferenceKey(task, item) ==
    IF task = "image_tasks" THEN TargetKey(item.category)
    ELSE IF task = "text_to_video" THEN "image"
    ELSE "video"

\* Whether the reference of the record of a history entry is missing: the
\* field is absent, or the file it names cannot be read.
ReferenceMissing(x) ==
    \/ ReferenceKey(x.task, data[x.id]) \notin DataKeys(data[x.id])
    \/ x.env.kind = "image" /\ ~x.env.ref_loads
    \/ x.env.kind = "video" /\ x.task # "text_to_video" /\ ~x.env.ref_ok

\* C12: for a record whose reference is missing (field absent or file not
\* found) no metric call and no frame-sampler call is made, in the image
\* pipeline and in the three video pipelines.
C12_NoCallWithoutReference ==
    \A k \in DOMAIN log :
        log[k].id # 0 /\ ReferenceMissing(log[k]) => ~log[k].called

\* The history entries of the records whose reference is missing.
WithoutReference == {k \in DOMAIN log : ReferenceMissing(log[k])}

\* A finished run of evaluate_image_tasks over reconstruction records each of
\* which either lacks its reference image or evaluates successfully.
ReconstructionRun ==
    /\ ImageDone
    /\ Len(log) = Len(data)
    /\ \A k \in DOMAIN log :
          /\ data[log[k].id].category = Recon
          /\ data[log[k].id].error = 0
          /\ data[log[k].id].output \in {OutStr, OutDictImage}
          /\ ReferenceMissing(log[k]) \/ log[k].path = "result"

\* C13: of n reconstruction records of which m lack their reference image
\* (field absent or file not found) and the others evaluate successfully,
\* n - m are counted in processed_samples and m in skipped_samples.
C13_MissingReferenceSkipped ==
    ReconstructionRun =>
        /\ image_results.processed_samples = Len(data) - Cardinality(WithoutReference)
        /\ image_results.skipped_samples = Cardinality(WithoutReference)

\* The history entries of a task whose calls raised.
RaisedIn(task) ==
    {k \in DOMAIN log :
        /\ log[k].task = task
        /\ log[k].path \in {"except", "inner_except"}
        /\ log[k].called}

\* What a task returned, if it has.
Returned(task) ==
    IF task = "image_tasks" THEN image_results ELSE video_results[task]

\* C14: after a run of a task in which k records raised in a metric or
\* frame-sampler call, the results of the task record a failed count of k,
\* separate from the validation skips, those k records being in the skipped
\* total too.
C14_FailedCountRecorded ==
    \A t \in {"image_tasks"} \cup Range(video_tasks) :
        LoopEnded(t) /\ RaisedIn(t) # {} =>
            /\ "failed_samples" \in DOMAIN Returned(t)
            /\ Returned(t)["failed_samples"] = Cardinality(RaisedIn(t))
            /\ Returned(t).skipped_samples >= Cardinality(RaisedIn(t))

\* The frame-text similarities available for a record with outcome e.
AvailableSims(e) == FrameClipScores(e.sims, extract_frames_for_clip(Len(e.sims)))

\* C15: in process_image_to_video, a record whose features do not validate
\* but that has a frame-text similarity is not discarded: its distance part
\* is 0, its clip_t is the mean similarity and its score (0 + clip_t) / 2.
C15_DistanceFallback ==
    "image_to_video" \in DOMAIN video_results =>
        LET l == LogOf("image_to_video")
            r == video_results["image_to_video"].sample_scores
        IN  \A k \in 1..Len(l) :
                LET e == l[k].env IN
                /\ e.kind = "video" /\ e.gen_ok /\ e.ref_ok /\ ~e.feat_ok
                /\ AvailableSims(e) # <<>>
                => /\ r[k].norm_fvd = RatZero
                   /\ r[k].clip_t = Mean(AvailableSims(e))
                   /\ r[k].score = RatDiv(Mean(AvailableSims(e)), 2)

\* C16: a text-to-video record with a non-empty output and a Text_Prompt
\* but no reference image or video under data is evaluated, not skipped, and
\* its score is the mean frame-text similarity of its generated video.
C16_NoReferenceForTextToVideo ==
    "text_to_video" \in DOMAIN video_results =>
        LET l == LogOf("text_to_video")
            d == TaskData("text_to_video")
            r == video_results["text_to_video"].sample_scores
        IN  \A k \in 1..Len(l) :
                /\ d[k].output = OutStr /\ d[k].has_prompt
                /\ DataKeys(d[k]) \cap {"image", "video"} = {}
                => /\ l[k].called
                   /\ l[k].env.kind = "video"
                   /\ l[k].env.gen_ok /\ AvailableSims(l[k].env) # <<>> =>
                         /\ l[k].status = "processed"
                         /\ r[k].score = Mean(AvailableSims(l[k].env))

\* The metric keys of an image task other than 'score'.
OwnMetrics(results_dict, task) ==
    IF task \in AbsentImageTasks(results_dict) THEN {}
    ELSE (DOMAIN results_dict["image_tasks"]["category_scores"][task]) \ {"score"}

\* C17: the composed score of an image task is the arithmetic mean of its
\* aggregated metric values other than 'score'; it is 0 when the task is
\* absent or has no metric other than 'score'.
C17_ImageTaskScoreExcludesScore ==
    ComposeDone =>
        \A t \in Range(image_tasks) :
            LET metrics == OwnMetrics(all_results, t) IN
            IF metrics = {}
            THEN scores_result.task_scores[t] = RatZero
            ELSE LET values == all_results["image_tasks"]["category_scores"][t] IN
                 RatEq([n |-> scores_result.task_scores[t].n * Cardinality(metrics),
                        d |-> scores_result.task_scores[t].d],
                       SumKeys(values, metrics))

\* C17 happens: a reconstruction aggregate whose 'score' differs from its
\* lpips, an editing aggregate of two metrics, and a generation aggregate
\* that holds 'score' alone.
C17_Witness ==
    /\ ComposeDone
    /\ OwnMetrics(all_results, Recon) = {"lpips"}
    /\ OwnMetrics(all_results, Editing) = {"clip_i", "clip_t"}
    /\ Generation \notin AbsentImageTasks(all_results)
    /\ OwnMetrics(all_results, Generation) = {}
    /\ scores_result.task_scores[Recon] = Rat(40, 1)
    /\ scores_result.task_scores[Editing] = Rat(45, 1)
    /\ scores_result.task_scores[Generation] = RatZero

\* The positions of the records whose category is exactly the string.
Matching(category) == {k \in DOMAIN data : data[k].category = category}

\* C18: image_tasks.total_samples is the size of the whole dataset, whatever
\* the categories of its records, while total_samples of a video task is
\* the number of records whose category is exactly the task's category
\* string; a record of any other category is an entry of no video task.
C18_DenominatorAsymmetry ==
    /\ ImageFinished => image_results.total_samples = Len(data)
    /\ \A t \in DOMAIN video_results :
          /\ video_results[t].total_samples = Cardinality(Matching(TaskCategory(t)))
          /\ \A i \in DOMAIN video_results[t].sample_scores :
                video_results[t].sample_scores[i].id \in Matching(TaskCategory(t))

\* C18 happens: a dataset of a video record and a record whose category
\* differs from 'Video prediction' in case only.
C18_Witness ==
    /\ MainDone
    /\ ImageFinished
    /\ DOMAIN video_results = Range(video_tasks)
    /\ Len(data) = 2
    /\ Matching(I2VCategory) # {}
    /\ Matching(OtherCategory) # {}
    /\ image_results.total_samples = 2
    /\ video_results["image_to_video"].total_samples = 1
    /\ video_results["video_prediction"].total_samples = 0

\* The ids of a list of entries.
Ids(sample_scores) == {sample_scores[i].id : i \in DOMAIN sample_scores}

\* Whether the entries are those of the records at the positions, one
\* each, in input order.
OnePerRecordInOrder(sample_scores, positions) ==
    /\ Len(sample_scores) = Cardinality(positions)
    /\ Ids(sample_scores) = positions
    /\ \A i, j \in DOMAIN sample_scores :
          i < j => sample_scores[i].id < sample_scores[j].id

\* C19: the sample_scores of a video task hold exactly one entry per record
\* of the task's category, the i-th entry carrying the id of the i-th such
\* record of the input, on every path through the loop; while the loop
\* runs they are the entries of the first idx such records.
C19_OneEntryPerRecordInOrder ==
    /\ \A t \in DOMAIN video_results :
          OnePerRecordInOrder(video_results[t].sample_scores, Matching(TaskCategory(t)))
    /\ pc \in {"i2v_loop", "t2v_loop", "vp_loop"} =>
          /\ Len(results.sample_scores) = idx
          /\ \E rest \in SUBSET Matching(TaskCategory(VideoLoopTask)) :
                /\ OnePerRecordInOrder(results.sample_scores,
                                       Matching(TaskCategory(VideoLoopTask)) \ rest)
                /\ \A a \in Ids(results.sample_scores), b \in rest : a < b

\* C19 happens: a task ended with two records, the first skipped and the
\* second processed.
C19_Witness ==
    \E t \in DOMAIN video_results :
        LET l == LogOf(t) IN
        /\ Len(l) = 2
        /\ l[1].status = "skipped"
        /\ l[2].status = "processed"
        /\ video_results[t].sample_scores[1].id = 1
        /\ video_results[t].sample_scores[2].id = 2

\* The distances a sample entry stores (Inf for float('inf')).
EntryDistances(x) == {x[f] : f \in (DOMAIN x) \cap {"fvd", "fid"}}

\* Whether a written document holds a distance that is infinite.
HoldsInfinity(doc) ==
    \E t \in Range(video_tasks) \cap DOMAIN doc :
        \E i \in DOMAIN doc[t].sample_scores :
            Inf \in EntryDistances(doc[t].sample_scores[i])

\* C20: every report main writes, on the normal and on the fallback path,
\* is a valid JSON document: none of its numeric values is infinite or NaN.
C20_ReportIsValidJson ==
    MainDone /\ output_file.written => ~HoldsInfinity(output_file.doc)

\* The mean similarity of the frames a request for n frames returns.
ClipOver(e, n) == Mean(FrameClipScores(e.sims, sample_frames_from_mp4(Len(e.sims), n)))

\* The processed records of image_to_video, by position in the task.
ProcessedI2V ==
    IF "image_to_video" \in DOMAIN video_results
    THEN {k \in DOMAIN LogOf("image_to_video") :
             LogOf("image_to_video")[k].status = "processed"}
    ELSE {}

\* C21 as stated: the similarity of an image-to-video record is computed on
\* the frames a request for 16 frames of the generated video returns.
C21_SixteenFramesRequested ==
    \A k \in ProcessedI2V :
        video_results["image_to_video"].sample_scores[k].clip_t
            = ClipOver(LogOf("image_to_video")[k].env, 16)

\* C21: the similarity of an image-to-video record is computed on the
\* frames a request for 8 frames of the generated video returns, 8 being the
\* default of extract_frames_for_clip, which the task calls without a
\* number.
C21_EightFramesRequested ==
    \A k \in ProcessedI2V :
        video_results["image_to_video"].sample_scores[k].clip_t
            = ClipOver(LogOf("image_to_video")[k].env, 8)

\* C21 happens: a processed record whose generated video has more frames
\* than either number.
C21_Witness ==
    \E k \in ProcessedI2V :
        /\ Len(LogOf("image_to_video")[k].env.sims) = LongVideoFrames
        /\ LongVideoFrames > 8
        /\ video_results["image_to_video"].sample_scores[k].clip_t # RatZero

\* The image categories evaluate_image_tasks aggregated in a run of main
\* that went on to calculate_task_scores.
AggregatedCategories ==
    IF entry = "main" /\ ImageFinished /\ scores_result # <<>>
    THEN DOMAIN image_results.category_scores
    ELSE {}

\* C22: for every image category evaluate_image_tasks aggregated, the task
\* score calculate_task_scores composes from the metric means other than
\* 'score' equals the category's aggregated 'score' mean.
C22_ComposedScoreIsScoreMean ==
    \A c \in AggregatedCategories :
        RatEq(scores_result.task_scores[c], image_results.category_scores[c].score)

\* C22 happens: an editing category of two records with different clip_i
\* has been aggregated and composed.
C22_Witness ==
    /\ Editing \in AggregatedCategories
    /\ Len(image_results.categories[Editing]) = 2
    /\ image_results.categories[Editing][1].clip_i
          # image_results.categories[Editing][2].clip_i
    /\ scores_result.task_scores[Editing] = Rat(50, 1)

\* The records of a finished video task whose frames were sampled and whose
\* iteration raised nothing, by position in the task's history.
FramesScored(task) ==
    IF task \in DOMAIN video_results
    THEN {k \in DOMAIN LogOf(task) : LogOf(task)[k].path \in {"success", "invalid"}}
    ELSE {}

\* C23: in process_image_to_video and process_text_to_video, a record with
\* at least one frame whose similarity was computed is processed and its
\* clip_t is the mean over those frames alone; a record is skipped with a
\* zero clip_t only when no frame has a similarity.
C23_ClipOverSuccessfulFrames ==
    \A t \in {"image_to_video", "text_to_video"} :
        \A k \in FramesScored(t) :
            LET l == LogOf(t)[k]
                r == video_results[t].sample_scores[k]
                ok == AvailableSims(l.env)
            IN  IF ok # <<>>
                THEN l.status = "processed" /\ r.clip_t = Mean(ok)
                ELSE l.status = "skipped" /\ r.clip_t = RatZero

SampleDone == entry = "sample_frames_from_mp4" /\ pc = "done"

\* The frame indices (from 0) of the paths returned, in the order returned.
ReturnedIndices ==
    [j \in 1..Len(scores_result.frame_paths) |-> scores_result.frame_paths[j] - 1]

\* floor(i * (T - 1) / (n - 1)) for i = 0..n-1; frame 0 alone for n = 1.
EvenlySpaced(T, n) ==
    IF n = 1 THEN {0} ELSE {(i * (T - 1)) \div (n - 1) : i \in 0..(n - 1)}

\* C24: on a readable video of T >= 1 frames, a request for n >= 1 frames
\* returns exactly min(T, n) paths, in strictly increasing frame order
\* without repetition, the frames being floor(i * (T - 1) / (n - 1)) for
\* i = 0..n-1: frame 0 always and, for n >= 2, frame T - 1.
C24_EvenlySpacedFrames ==
    SampleDone =>
        LET T == results.total_frames
            n == results.num_frames
            f == ReturnedIndices
        IN  /\ Len(f) = (IF T < n THEN T ELSE n)
            /\ \A j \in 1..(Len(f) - 1) : f[j] < f[j + 1]
            /\ Range(f) = EvenlySpaced(T, n)
            /\ 0 \in Range(f)
            /\ n >= 2 => (T - 1) \in Range(f)

AccuracyDone == entry = "calculate_accuracy" /\ pc = "done"

\* The positions of the predictions whose output is the answer.
RightAnswers == {k \in DOMAIN data : data[k].output = data[k].answer}

RECURSIVE SumOver(_, _, _)
SumOver(f, keys, field) ==
    IF keys = {} THEN 0
    ELSE LET k == CHOOSE k \in keys : TRUE
         IN  f[k][field] + SumOver(f, keys \ {k}, field)

\* C25: calculate_accuracy counts a prediction without an output, or with
\* an empty one, as incorrect and does not skip it: the overall denominator
\* is the length of the list, the totals of the categories sum to it, the
\* overall accuracy is the sum of the categories' correct counts over it,
\* and the accuracy of an empty list is 0.
C25_EmptyOutputIsIncorrect ==
    AccuracyDone =>
        LET stats == results.category_stats IN
        /\ results.total_count = Len(data)
        /\ SumOver(stats, DOMAIN stats, "total") = Len(data)
        /\ SumOver(stats, DOMAIN stats, "correct") = Cardinality(RightAnswers)
        /\ \A c \in DOMAIN stats :
              stats[c].total = Cardinality({k \in DOMAIN data : data[k].category = c})
        /\ scores_result.overall_accuracy =
              (IF data = <<>> THEN RatZero
               ELSE Rat(SumOver(stats, DOMAIN stats, "correct"), Len(data)))

\* C25 happens: a list of a right answer, an absent output and an empty
\* output, whose accuracy is 1/3.
C25_Witness ==
    /\ AccuracyDone
    /\ Len(data) = 3
    /\ \E i, j, k \in DOMAIN data :
          /\ data[i].output = "absent"
          /\ data[j].output = ""
          /\ data[k].output = data[k].answer
    /\ scores_result.overall_accuracy = Rat(1, 3)

\* evaluate_results has processed every sample.
IEEProcessed ==
    entry = "evaluate_results" /\ pc \in {"iee_loop", "done"}
        /\ data # <<>> /\ idx = Len(data)

\* C26: after evaluate_results has processed all samples, for each of the
\* text, image and combined metrics every sample is counted in exactly one
\* of attempted, failed and skipped: attempted + failed + skipped = total,
\* the number of samples of the input.
C26_IEECountersPartition ==
    IEEProcessed =>
        \A m \in {"text", "image", "combined"} :
            /\ results[m].total = Len(data)
            /\ results[m].attempted + results[m].failed + results[m].skipped
                  = results[m].total

\* The samples whose similarity computation for metric m was started and
\* gave no result.
StartedWithoutResult(m) ==
    {k \in DOMAIN log : log[k][m].attempted /\ log[k][m].failed}

\* C27: in evaluate_results, every sample whose text (or image) similarity
\* computation was started and gave no result is counted in the failed
\* counter of that metric.
C27_StartedFailureCounted ==
    IEEProcessed =>
        \A m \in {"text", "image"} :
            results[m].failed >= Cardinality(StartedWithoutResult(m))

\* The steps evaluated so far: the sample (position in the history) and
\* the step (from 1).
EvaluatedSteps ==
    IF entry = "calculate_accuracies"
    THEN UNION {{<<k, i>> : i \in DOMAIN log[k].evaluation.step_results} : k \in DOMAIN log}
    ELSE {}

\* C28: evaluate_step marks the image aspect of a step correct only when
\* the similarity to the step's own ground-truth image was computed and is
\* the largest over all ground-truth images; when every similarity
\* computation of the step failed, the image aspect is not correct.
C28_ImageCorrectNeedsOwnSimilarity ==
    \A p \in EvaluatedSteps :
        LET sims == log[p[1]].env[p[2]] IN
        log[p[1]].evaluation.step_results[p[2]].image.correct =>
            /\ p[2] \in DOMAIN sims
            /\ sims[p[2]].ok
            /\ \A j \in DOMAIN sims : sims[j].ok => RatLe(sims[j].v, sims[p[2]].v)

VSPDone == entry = "calculate_accuracies" /\ pc = "done"

\* The samples all of whose steps had the three aspects attempted and
\* correct.
FullyCorrect(c) ==
    {k \in DOMAIN log :
        /\ log[k].evaluation.subcategory = c
        /\ \A i \in DOMAIN log[k].evaluation.step_results :
              LET r == log[k].evaluation.step_results[i] IN
              /\ r.action.attempted /\ r.location.attempted /\ r.image.attempted
              /\ r.action.correct /\ r.location.correct /\ r.image.correct}

\* C29: after calculate_accuracies has processed all samples, for every
\* subcategory attempted + skipped = total and correct <= attempted, the
\* totals of the subcategories sum to total_samples, and a sample is
\* counted correct only if every one of its steps had action, location and
\* image attempted and correct.
C29_SubcategoryCounters ==
    VSPDone =>
        LET sub == scores_result.subcategory_accuracies IN
        /\ \A c \in DOMAIN sub :
              /\ sub[c].attempted + sub[c].skipped = sub[c].total
              /\ sub[c].correct <= sub[c].attempted
              /\ sub[c].correct <= Cardinality(FullyCorrect(c))
        /\ SumOver(sub, DOMAIN sub, "total") = scores_result.total_samples
        /\ scores_result.total_samples = Len(data)

\* C29 happens: two samples of a subcategory, both attempted in full, of
\* which one alone is correct in every aspect of every step.
C29_Witness ==
    /\ VSPDone
    /\ Len(data) = 2
    /\ scores_result.subcategory_accuracies["maze"].attempted = 2
    /\ scores_result.subcategory_accuracies["maze"].correct = 1
    /\ Cardinality(FullyCorrect("maze")) = 1

\* C30: evaluate_generations does not end in an exception, whatever the
\* dataset (one without a Text-Image_Generation entry, or one all of whose
\* entries have missing or unreadable files, included), and when it has
\* ended it has written its results file.
C30_GenerationsAlwaysReport ==
    entry = "evaluate_generations" =>
        /\ pc # "raised"
        /\ pc = "done" => output_file.written

====
